---- MODULE Spec2Model ----
(***************************************************************************)
(* The SQL metadata extraction pipeline of                                 *)
(* metadata-ingestion/src/datahub/ingestion/source/sql: the generic driver *)
(* SQLAlchemySource (sql_common.py) with the overrides of ImpalaSource     *)
(* (impala.py).  One run of get_workunits is a walk                        *)
(*   database -> schema -> tables -> views -> profiling requests           *)
(* followed by the profiling pass and the stale entity removal.            *)
(*                                                                         *)
(* Names (schemas, tables, identifiers, work unit ids) are sequences of    *)
(* string tokens, so that string concatenation is sequence concatenation   *)
(* and a regular expression is matched token by token.                     *)
(***************************************************************************)
EXTENDS Integers, Sequences, FiniteSets, TLC

\* ------------------------------------------------------------------ bounds
\* longest list inspector.get_table_names returns for one schema
MaxTables == 2
\* longest list inspector.get_view_names returns for one schema
MaxViews == 1
\* most lookups of one run the adapter fails or answers with nothing
MaxFaults == 2

\* ------------------------------------------------------------------ names
None == <<"None">>
PLATFORM == "impala"
DB_NAME == <<"none">>
SchemaSales == <<"sales">>
SchemaTmp == <<"tmp_", "stage">>
TableOrders == <<"orders">>
TableTmpScratch == <<"tmp_", "scratch">>
ViewOrders == <<"orders">>
TableNames == {TableOrders, TableTmpScratch}
ViewNames == {ViewOrders}
\* inspector.get_schema_names(): the schemas of the source, in order
SchemaNames == <<SchemaSales, SchemaTmp>>
MISSING_COLUMN_INFO == <<"missing column information">>

SeqsUpTo(S, n) == UNION {[1..k -> S] : k \in 0..n}

\* ------------------------------------------------------------------ patterns
\* A regular expression is a sequence of literal tokens and ".*"; re.match
\* anchors it at the start of the string only.
RECURSIVE ReMatch(_, _)
ReMatch(regex, str) ==
    IF regex = <<>> THEN TRUE
    ELSE IF Head(regex) = ".*"
         THEN \E k \in 0..Len(str) : ReMatch(Tail(regex), SubSeq(str, k + 1, Len(str)))
         ELSE /\ str # <<>>
              /\ Head(str) = Head(regex)
              /\ ReMatch(Tail(regex), Tail(str))

\* AllowDenyPattern.allowed: no deny expression matches and some allow
\* expression matches.
Allowed(pattern, str) ==
    /\ \A d \in pattern.deny : ~ReMatch(d, str)
    /\ \E a \in pattern.allow : ReMatch(a, str)

AllowAll == [allow |-> {<<".*">>}, deny |-> {}]
\* deny: ["tmp_.*"]
DenyTmpPrefix == [allow |-> {<<".*">>}, deny |-> {<<"tmp_", ".*">>}]
\* deny: [".*\.tmp_.*"]
DenyTmpTables == [allow |-> {<<".*">>}, deny |-> {<<".*", ".", "tmp_", ".*">>}]
\* deny: [".*\.orders"]
DenyOrders == [allow |-> {<<".*">>}, deny |-> {<<".*", ".", "orders">>}]
\* the key is absent from the recipe
Unset == [allow |-> {}, deny |-> {}]
\* the key is in the recipe with the empty mapping: "view_pattern: {}"
EmptyMapping == [allow |-> {}, deny |-> {}, explicit |-> TRUE]
\* Python's "not value" of a raw pattern: None and the empty dict are false
Falsy(p) == p.allow = {} /\ p.deny = {}

\* ------------------------------------------------------------------ configuration
\* SQLAlchemyConfig.view_pattern_is_table_pattern_unless_specified, followed
\* by the field defaults (AllowDenyPattern.allow_all()).  The validator runs
\* on the raw values and tests them for truth, not for presence.
view_pattern_is_table_pattern_unless_specified(values) ==
    IF ~Falsy(values.table_pattern) /\ Falsy(values.view_pattern)
    THEN [values EXCEPT !.view_pattern = values.table_pattern]
    ELSE values

\* an absent key takes the field default; the empty mapping parses to
\* AllowDenyPattern(), whose allow list defaults to [".*"]
FieldDefault(p) == IF Falsy(p) THEN AllowAll ELSE p

ParseConfig(raw) ==
    LET v == view_pattern_is_table_pattern_unless_specified(raw)
    IN  [v EXCEPT !.schema_pattern = FieldDefault(v.schema_pattern),
                  !.table_pattern = FieldDefault(v.table_pattern),
                  !.view_pattern = FieldDefault(v.view_pattern),
                  !.profile_pattern = FieldDefault(v.profile_pattern)]

\* the recipes the runs are checked for
RawConfigs ==
    [schema_pattern : {Unset, DenyTmpPrefix},
     table_pattern : {Unset, DenyTmpTables},
     view_pattern : {Unset, DenyOrders},
     profile_pattern : {Unset},
     domain : {<<>>},
     include_tables : BOOLEAN,
     include_views : BOOLEAN,
     include_table_location_lineage : {TRUE},
     profiling_enabled : BOOLEAN,
     report_dropped_profiles : {FALSE},
     partition_profiling_enabled : {TRUE},
     profile_if_updated_since_days : {None},
     profile_table_size_limit : {<<"5">>},
     profile_table_row_limit : {<<"5000000">>},
     platform_instance : {None},
     env : {<<"PROD">>},
     scheme : {<<"impala">>},
     username : {<<"etl">>},
     password : {<<"hunter2">>},
     host_port : {<<"impala-host:21050">>},
     database : {None}]

\* make_sqlalchemy_uri
make_sqlalchemy_uri(scheme, username, password, at, db) ==
    scheme \o <<"://">>
    \o (IF username # None
        THEN username \o (IF password # None THEN <<":">> \o password ELSE <<>>) \o <<"@">>
        ELSE <<>>)
    \o (IF at # None THEN at ELSE <<>>)
    \o (IF db # None THEN <<"/">> \o db ELSE <<>>)

\* BasicSQLAlchemyConfig.get_sql_alchemy_url
get_sql_alchemy_url(cfg) ==
    make_sqlalchemy_uri(cfg.scheme, cfg.username, cfg.password, cfg.host_port, cfg.database)

\* ------------------------------------------------------------------ identifiers
\* SQLAlchemySource.standardize_schema_table_names
standardize_schema_table_names(schema, entity) == <<schema, entity>>

\* SQLAlchemySource.get_identifier: f"{schema}.{entity}"
get_identifier(schema, entity) == schema \o <<".">> \o entity

\* SQLAlchemySource.normalise_dataset_name
normalise_dataset_name(dataset_name) == dataset_name

\* the identifier loop_tables and loop_views compute for an enumerated entity
DatasetName(schema, entity) ==
    LET st == standardize_schema_table_names(schema, entity)
    IN  normalise_dataset_name(get_identifier(st[1], st[2]))

\* make_dataset_urn_with_platform_instance(platform, name, instance, env)
DatasetUrn(cfg, dataset_name) ==
    [type |-> "dataset",
     name |-> <<PLATFORM, ",">>
              \o (IF cfg.platform_instance # None
                  THEN cfg.platform_instance \o <<".">> ELSE <<>>)
              \o dataset_name \o <<",">> \o cfg.env]

\* make_container_urn(gen_database_key(database).guid())
DatabaseContainerUrn(cfg, database) ==
    [type |-> "container",
     name |-> <<PLATFORM, ",">> \o cfg.platform_instance \o <<",">> \o database]

\* make_container_urn(gen_schema_key(db_name, schema).guid())
SchemaContainerUrn(cfg, database, schema) ==
    [type |-> "container",
     name |-> <<PLATFORM, ",">> \o cfg.platform_instance \o <<",">> \o database
              \o <<",">> \o schema]

UrnStr(urn) == <<"urn:li:", urn.type, ":">> \o urn.name

\* ------------------------------------------------------------------ work units
\* A work unit: its id, the entity it targets, the aspects it carries, what
\* the aspects say (a set of facts), and whether it upserts or retracts.
WorkUnit(id, urn, aspects, payload, op) ==
    [id |-> id, urn |-> urn, aspects |-> aspects, payload |-> payload, op |-> op]

\* gen_containers(container_key, ...): the container record
ContainerWU(urn) ==
    WorkUnit(<<"container-info-">> \o UrnStr(urn), urn, {"containerProperties"}, {}, "upsert")

\* add_dataset_to_container(container_key, dataset_urn)
ContainerMembershipWU(container_urn, dataset_urn) ==
    WorkUnit(<<"container-">> \o UrnStr(container_urn) \o <<"-to-">> \o UrnStr(dataset_urn),
             dataset_urn, {"container"}, {}, "upsert")

\* SqlWorkUnit(id=dataset_name, mce=MetadataChangeEvent(proposedSnapshot=...))
SnapshotWU(dataset_name, urn, aspects, payload) ==
    WorkUnit(dataset_name, urn, aspects, payload, "upsert")

\* SQLAlchemySource.get_dataplatform_instance_aspect
get_dataplatform_instance_aspect(cfg, urn) ==
    IF cfg.platform_instance # None
    THEN <<WorkUnit(UrnStr(urn) \o <<"-dataPlatformInstance">>, urn,
                    {"dataPlatformInstance"}, {}, "upsert")>>
    ELSE <<>>

\* add_domain_to_entity_wu(entity_urn, domain_urn)
DomainWU(domain_urn, urn) ==
    WorkUnit(<<"domain-">> \o domain_urn \o <<"-to-">> \o UrnStr(urn), urn,
             {"domains"}, {}, "upsert")

\* _gen_domain_urn leaving its loop at the first entry that admits the name
RECURSIVE gen_domain_urn_first(_, _, _)
gen_domain_urn_first(domains, dataset_name, found) ==
    IF domains = <<>> THEN found
    ELSE IF Allowed(Head(domains).pattern, dataset_name) THEN Head(domains).domain
    ELSE gen_domain_urn_first(Tail(domains), dataset_name, found)

\* SQLAlchemySource._gen_domain_urn: the last matching entry of config.domain
RECURSIVE gen_domain_urn(_, _, _)
gen_domain_urn(domains, dataset_name, found) ==
    IF domains = <<>> THEN found
    ELSE gen_domain_urn(Tail(domains), dataset_name,
                        IF Allowed(Head(domains).pattern, dataset_name)
                        THEN Head(domains).domain ELSE found)

\* SQLAlchemySource._get_domain_wu
get_domain_wu(cfg, dataset_name, urn) ==
    LET domain_urn == gen_domain_urn(cfg.domain, dataset_name, None)
    IN  IF domain_urn # None THEN <<DomainWU(domain_urn, urn)>> ELSE <<>>

\* StaleEntityRemovalHandler.gen_removed_entity_workunits: one retraction
\* (status removed) per removed entity
RetractionWU(urn) ==
    WorkUnit(<<"soft-delete-">> \o UrnStr(urn), urn, {"status"}, {"removed"}, "retract")

\* ------------------------------------------------------------------ report
\* SQLSourceReport()
NewReport ==
    [tables_scanned |-> 0, views_scanned |-> 0, entities_profiled |-> 0,
     filtered |-> <<>>, warnings |-> <<>>, failures |-> <<>>]

report_warning(r, key, reason) == [r EXCEPT !.warnings = Append(@, <<key, reason>>)]
report_warnings(r, ws) == [r EXCEPT !.warnings = @ \o ws]
report_failure(r, key, reason) == [r EXCEPT !.failures = Append(@, <<key, reason>>)]
report_dropped(r, ent_name) == [r EXCEPT !.filtered = Append(@, ent_name)]
report_entity_scanned(r, ent_type) ==
    IF ent_type = "table" THEN [r EXCEPT !.tables_scanned = @ + 1]
    ELSE [r EXCEPT !.views_scanned = @ + 1]
report_entity_profiled(r) == [r EXCEPT !.entities_profiled = @ + 1]

\* the reasons recorded under a warning key
WarningsOf(r, key) == {r.warnings[i][2] : i \in {j \in DOMAIN r.warnings : r.warnings[j][1] = key}}

\* ------------------------------------------------------------------ type mapping
\* The SQLAlchemy classes a column type can be an instance of, each with the
\* class it derives from; a class not listed derives from TypeEngine only.
Parent(t) ==
    CASE t = "LargeBinary" -> "_Binary"
      [] t = "DATE" -> "Date"
      [] t = "DATETIME" -> "DateTime"
      [] t = "TIMESTAMP" -> "DateTime"
      [] t = "Float" -> "Numeric"
      [] t = "Text" -> "String"
      [] t = "postgresql.BYTEA" -> "LargeBinary"
      [] t = "postgresql.DOUBLE_PRECISION" -> "Float"
      [] t = "postgresql.TIMESTAMP" -> "TIMESTAMP"
      [] t = "VendorText" -> "Text"
      [] t = "VendorJson" -> "JSON"
      [] t \in {"HiveDate", "HiveTimestamp", "HiveDecimal"} -> "TypeDecorator"
      [] OTHER -> "TypeEngine"

\* the classes of the method resolution order of class t
RECURSIVE Ancestors(_)
Ancestors(t) == IF t = "TypeEngine" THEN {t} ELSE {t} \cup Ancestors(Parent(t))

\* isinstance(column_type, sql_type), column_type an instance of class t
IsInstance(t, sql_type) == sql_type \in Ancestors(t)

\* _field_type_mapping as the module defines it (lines 336-373): a dict, that
\* is its items in insertion order
BuiltinFieldTypeMapping ==
    <<<<"Integer", "NumberTypeClass">>, <<"Numeric", "NumberTypeClass">>,
      <<"Boolean", "BooleanTypeClass">>, <<"Enum", "EnumTypeClass">>,
      <<"_Binary", "BytesTypeClass">>, <<"LargeBinary", "BytesTypeClass">>,
      <<"PickleType", "BytesTypeClass">>, <<"ARRAY", "ArrayTypeClass">>,
      <<"String", "StringTypeClass">>, <<"Date", "DateTypeClass">>,
      <<"DATE", "DateTypeClass">>, <<"Time", "TimeTypeClass">>,
      <<"DateTime", "TimeTypeClass">>, <<"DATETIME", "TimeTypeClass">>,
      <<"TIMESTAMP", "TimeTypeClass">>, <<"JSON", "RecordTypeClass">>,
      <<"postgresql.BYTEA", "BytesTypeClass">>,
      <<"postgresql.DOUBLE_PRECISION", "NumberTypeClass">>,
      <<"postgresql.INET", "StringTypeClass">>, <<"postgresql.MACADDR", "StringTypeClass">>,
      <<"postgresql.MONEY", "NumberTypeClass">>, <<"postgresql.OID", "StringTypeClass">>,
      <<"postgresql.REGCLASS", "BytesTypeClass">>, <<"postgresql.TIMESTAMP", "TimeTypeClass">>,
      <<"postgresql.TIME", "TimeTypeClass">>, <<"postgresql.INTERVAL", "TimeTypeClass">>,
      <<"postgresql.BIT", "BytesTypeClass">>, <<"postgresql.UUID", "StringTypeClass">>,
      <<"postgresql.TSVECTOR", "BytesTypeClass">>, <<"postgresql.ENUM", "EnumTypeClass">>,
      <<"NullType", "NullTypeClass">>>>

\* _known_unknown_field_types as the module defines it (lines 374-377)
BuiltinKnownUnknown == {"Interval", "CLOB"}

NoOutput == "None"

\* the keys of the mapping, _field_type_mapping.keys()
Keys(mapping) == {mapping[i][1] : i \in DOMAIN mapping}

\* register_custom_type: _field_type_mapping[tp] = output replaces the value
\* of a key the dict has, in place, and appends a key it has not
register_custom_type(reg, tp, output) ==
    IF output # NoOutput
    THEN IF tp \in Keys(reg.mapping)
         THEN [reg EXCEPT !.mapping =
                  [i \in DOMAIN @ |-> IF @[i][1] = tp THEN <<tp, output>> ELSE @[i]]]
         ELSE [reg EXCEPT !.mapping = Append(@, <<tp, output>>)]
    ELSE [reg EXCEPT !.unknown = @ \cup {tp}]

\* the import of impala.py (lines 55-57) on top of the import of sql_common.py
ImpalaRegistrations ==
    <<<<"HiveDate", "DateTypeClass">>, <<"HiveTimestamp", "TimeTypeClass">>,
      <<"HiveDecimal", "NumberTypeClass">>>>
ImportedRegistry ==
    LET r0 == [mapping |-> BuiltinFieldTypeMapping, unknown |-> BuiltinKnownUnknown]
        r1 == register_custom_type(r0, ImpalaRegistrations[1][1], ImpalaRegistrations[1][2])
        r2 == register_custom_type(r1, ImpalaRegistrations[2][1], ImpalaRegistrations[2][2])
    IN  register_custom_type(r2, ImpalaRegistrations[3][1], ImpalaRegistrations[3][2])

\* get_column_type: the value of the first key, in insertion order, the
\* column type is an instance of; failing that NullTypeClass, with a warning
\* unless a known-unknown type matches
get_column_type(reg, column_type) ==
    LET classes == Ancestors(column_type)
        hits == {i \in DOMAIN reg.mapping : reg.mapping[i][1] \in classes}
    IN  IF hits # {}
        THEN [type |-> reg.mapping[CHOOSE i \in hits : \A k \in hits : i <= k][2],
              warned |-> FALSE]
        ELSE IF reg.unknown \cap classes # {}
        THEN [type |-> "NullTypeClass", warned |-> FALSE]
        ELSE [type |-> "NullTypeClass", warned |-> TRUE]

\* ------------------------------------------------------------------ one entity
\* What processing one entity does, in program order: the work units it
\* yields, the tracker registrations (each with the number of work units the
\* entity had yielded before it), the warnings it reports, the adapter
\* lookups it makes, and whether an exception left the generator.
NoEffect == [wus |-> <<>>, adds |-> <<>>, warnings |-> <<>>, calls |-> {}, raised |-> FALSE]

\* a lookup and how the adapter answered it: "ok", "empty", "keyerror", "raise"
Call(op, kind, dataset_name, result) ==
    [op |-> op, kind |-> kind, name |-> dataset_name, result |-> result]

Lookup(e, op, kind, dataset_name, result) ==
    [e EXCEPT !.calls = @ \cup {Call(op, kind, dataset_name, result)}]
Raise(e) == [e EXCEPT !.raised = TRUE]
Warning(e, key, reason) == [e EXCEPT !.warnings = Append(@, <<key, reason>>)]
Yield(e, units) == [e EXCEPT !.wus = @ \o units]

\* stale_entity_removal_handler.add_entity_to_state(kind, urn)
add_entity_to_state(e, kind, urn) ==
    [e EXCEPT !.adds = Append(@, [kind |-> kind, urn |-> urn, at |-> Len(e.wus)])]

\* inspector.get_columns(entity, schema) when it answers: the columns of the
\* source's tables and views, each with the class of its type.  Geometry is
\* a class the registry has no rule for.
SourceColumns(dataset_name) ==
    IF dataset_name[Len(dataset_name)] = "orders"
    THEN <<[name |-> "day", type |-> "HiveDate"], [name |-> "region", type |-> "Geometry"]>>
    ELSE <<[name |-> "shape", type |-> "Geometry"]>>

\* the reason of the warning of get_column_type (line 425)
UnableToMap(column_type) == <<"unable to map type ", column_type, " to metadata schema">>

\* SQLAlchemySource.get_schema_fields: get_schema_fields_for_column, that is
\* get_column_type, for every column in turn
RECURSIVE get_schema_fields(_, _, _, _)
get_schema_fields(e, reg, dataset_name, columns) ==
    IF e.raised \/ columns = <<>> THEN e
    ELSE get_schema_fields(
            IF get_column_type(reg, Head(columns).type).warned
            THEN Warning(e, dataset_name, UnableToMap(Head(columns).type))
            ELSE e,
            reg, dataset_name, Tail(columns))

\* the column list _process_table and _process_view go on with
ColumnsGot(dataset_name, fault) ==
    IF fault \in {"columns_raise", "columns_empty", "columns_keyerror"} THEN <<>>
    ELSE SourceColumns(dataset_name)

\* what the adapter can do to the lookups of one table
TableFaults == {"none", "columns_raise", "columns_empty", "props_raise", "pk_raise"}
\* what the adapter can do to the lookups of one view
ViewFaults == {"none", "columns_keyerror", "columns_raise", "props_raise"}
\* an inspector whose lookups fail in these ways
DefaultAdapter == [table |-> TableFaults, view |-> ViewFaults]
\* an inspector whose optional capabilities fail: the foreign keys with a
\* KeyError or another exception, the table comment and the view definition
\* with NotImplementedError, the view definition answering None
LookupAdapter ==
    [table |-> {"none", "fk_keyerror", "fk_raise", "props_notimplemented"},
     view |-> {"none", "props_notimplemented", "viewdef_notimplemented", "viewdef_none"}]

\* _get_columns without its except clause: the exception of
\* inspector.get_columns leaves _process_table
get_columns_propagating(e, dataset_name, fault) ==
    IF fault = "columns_raise"
    THEN Raise(Lookup(e, "get_columns", "table", dataset_name, "raise"))
    ELSE IF fault = "columns_empty"
    THEN Warning(Lookup(e, "get_columns", "table", dataset_name, "empty"),
                 MISSING_COLUMN_INFO, dataset_name)
    ELSE Lookup(e, "get_columns", "table", dataset_name, "ok")

\* ImpalaSource._get_columns (the same steps as SQLAlchemySource._get_columns):
\* every exception of inspector.get_columns is caught and reported, and the
\* column list is then empty
get_columns(e, dataset_name, fault) ==
    IF fault = "columns_raise"
    THEN Warning(Lookup(e, "get_columns", "table", dataset_name, "raise"),
                 dataset_name, <<"unable to get column information due to an error">>)
    ELSE IF fault = "columns_empty"
    THEN Warning(Lookup(e, "get_columns", "table", dataset_name, "empty"),
                 MISSING_COLUMN_INFO, dataset_name)
    ELSE Lookup(e, "get_columns", "table", dataset_name, "ok")

\* ImpalaSource.get_table_properties: DESCRIBE FORMATTED through the second
\* connection; a failure of the query or of its parsing leaves the method,
\* a success reports the properties as a warning
get_table_properties(e, kind, dataset_name, fault) ==
    IF e.raised THEN e
    ELSE IF fault = "props_raise"
         THEN Raise(Lookup(e, "get_table_properties", kind, dataset_name, "raise"))
         ELSE IF fault = "props_notimplemented"
         THEN Raise(Lookup(e, "get_table_properties", kind, dataset_name, "notimplemented"))
         ELSE Warning(Lookup(e, "get_table_properties", kind, dataset_name, "ok"),
                      <<"properties">>, <<"{properties}">>)

\* inspector.get_pk_constraint(table, schema)
get_pk_constraint(e, dataset_name, fault) ==
    IF e.raised THEN e
    ELSE IF fault = "pk_raise"
         THEN Raise(Lookup(e, "get_pk_constraint", "table", dataset_name, "raise"))
         ELSE Lookup(e, "get_pk_constraint", "table", dataset_name, "ok")

\* SQLAlchemySource._get_foreign_keys: a KeyError is logged at debug level
\* and the list is empty, any other exception leaves _process_table
get_foreign_keys(e, dataset_name, fault) ==
    IF e.raised THEN e
    ELSE IF fault = "fk_keyerror"
         THEN Lookup(e, "get_foreign_keys", "table", dataset_name, "keyerror")
         ELSE IF fault = "fk_raise"
         THEN Raise(Lookup(e, "get_foreign_keys", "table", dataset_name, "raise"))
         ELSE Lookup(e, "get_foreign_keys", "table", dataset_name, "ok")

\* lines 854-871: the lineage to the storage location, yielded as soon as
\* get_table_properties has answered with a location.  hk.location holds the
\* tables the source class has a location for; ImpalaSource has none.
LocationLineage(e, cfg, hk, dataset_name, urn) ==
    IF e.raised THEN e
    ELSE IF cfg.include_table_location_lineage /\ dataset_name \in hk.location
         THEN Yield(e, <<WorkUnit(<<PLATFORM, "-">> \o UrnStr(urn) \o <<"-upstreamLineage">>,
                                  urn, {"upstreamLineage"}, {"location"}, "upsert")>>)
         ELSE e

\* the tracker registration of _process_table (line 832)
RegisterTable(e, urn) ==
    IF e.raised THEN e ELSE add_entity_to_state(e, "table", urn)

\* the aspects of the table snapshot: status, properties, and the schema
\* metadata, which is appended whatever the column list is
TableSnapshotAspects(fault) == {"status", "datasetProperties", "schemaMetadata"}

\* what the table snapshot says: the schema metadata has the fields of the
\* column list, none when the lookup failed or returned nothing
TableSnapshotPayload(fault) ==
    (IF fault \in {"columns_raise", "columns_empty"} THEN {"fields=[]"} ELSE {"fields"})
    \cup (IF fault = "fk_keyerror" THEN {"foreignKeys=[]"} ELSE {"foreignKeys"})

\* the tail of _process_table (lines 889-915): container membership, the
\* snapshot, the platform instance, the subtype and the domain
EmitTable(e, cfg, dataset_name, schema, urn, fault) ==
    IF e.raised THEN e
    ELSE Yield(e,
            <<ContainerMembershipWU(SchemaContainerUrn(cfg, DB_NAME, schema), urn),
              SnapshotWU(dataset_name, urn, TableSnapshotAspects(fault), TableSnapshotPayload(fault))>>
            \o get_dataplatform_instance_aspect(cfg, urn)
            \o <<WorkUnit(dataset_name \o <<"-subtypes">>, urn, {"subTypes"}, {"table"}, "upsert")>>
            \o get_domain_wu(cfg, dataset_name, urn))

\* _process_table adding the table to the checkpoint state after its last
\* work unit
process_table_registering_last(reg, cfg, hk, dataset_name, schema, table, fault) ==
    LET urn == DatasetUrn(cfg, dataset_name)
        e1 == get_columns(NoEffect, dataset_name, fault)
        e3 == LocationLineage(get_table_properties(e1, "table", dataset_name, fault),
                              cfg, hk, dataset_name, urn)
        e4 == get_pk_constraint(e3, dataset_name, fault)
        e5 == get_foreign_keys(e4, dataset_name, fault)
        e6 == get_schema_fields(e5, reg, dataset_name, ColumnsGot(dataset_name, fault))
    IN  RegisterTable(EmitTable(e6, cfg, dataset_name, schema, urn, fault), urn)

\* SQLAlchemySource._process_table
process_table(reg, cfg, hk, dataset_name, schema, table, fault) ==
    LET urn == DatasetUrn(cfg, dataset_name)
        e1 == get_columns(NoEffect, dataset_name, fault)
        e2 == RegisterTable(e1, urn)
        e3 == LocationLineage(get_table_properties(e2, "table", dataset_name, fault),
                              cfg, hk, dataset_name, urn)
        e4 == get_pk_constraint(e3, dataset_name, fault)
        e5 == get_foreign_keys(e4, dataset_name, fault)
        e6 == get_schema_fields(e5, reg, dataset_name, ColumnsGot(dataset_name, fault))
    IN  EmitTable(e6, cfg, dataset_name, schema, urn, fault)

\* inspector.get_columns(view, schema) in _process_view: a KeyError is
\* reported and the view goes on without schema metadata, any other
\* exception leaves _process_view
get_view_columns(e, dataset_name, fault) ==
    IF fault = "columns_keyerror"
    THEN Warning(Lookup(e, "get_columns", "view", dataset_name, "keyerror"),
                 dataset_name, <<"unable to get schema for this view">>)
    ELSE IF fault = "columns_raise"
    THEN Raise(Lookup(e, "get_columns", "view", dataset_name, "raise"))
    ELSE Lookup(e, "get_columns", "view", dataset_name, "ok")

\* _process_view letting the NotImplementedError of get_view_definition go
get_view_definition_propagating(e, dataset_name, fault) ==
    IF e.raised THEN e
    ELSE IF fault = "viewdef_notimplemented"
         THEN Raise(Lookup(e, "get_view_definition", "view", dataset_name, "notimplemented"))
         ELSE IF fault = "viewdef_none"
         THEN Lookup(e, "get_view_definition", "view", dataset_name, "none")
         ELSE Lookup(e, "get_view_definition", "view", dataset_name, "ok")

\* inspector.get_view_definition(view, schema) in the try of lines 1126-1136:
\* NotImplementedError is caught
get_view_definition(e, dataset_name, fault) ==
    IF e.raised THEN e
    ELSE IF fault = "viewdef_notimplemented"
         THEN Lookup(e, "get_view_definition", "view", dataset_name, "notimplemented")
         ELSE IF fault = "viewdef_none"
         THEN Lookup(e, "get_view_definition", "view", dataset_name, "none")
         ELSE Lookup(e, "get_view_definition", "view", dataset_name, "ok")

\* lines 1126-1137: the definition text, "" when the lookup answered None or
\* raised NotImplementedError
ViewDefinition(fault) ==
    IF fault \in {"viewdef_notimplemented", "viewdef_none"} THEN "viewLogic=''" ELSE "viewLogic"

ViewSnapshotAspects(fault) ==
    IF fault = "columns_keyerror" THEN {"status", "datasetProperties"}
    ELSE {"status", "datasetProperties", "schemaMetadata"}

\* what the view snapshot says: properties["is_view"] = "True", and the fields
ViewSnapshotPayload(fault) ==
    IF fault = "columns_keyerror" THEN {"is_view"} ELSE {"is_view", "fields"}

\* the tail of _process_view (lines 1149-1198): the container membership is
\* yielded before the view is registered
EmitView(e, cfg, dataset_name, schema, view, urn, fault) ==
    IF e.raised THEN e
    ELSE LET m == Yield(e, <<ContainerMembershipWU(SchemaContainerUrn(cfg, DB_NAME, schema), urn)>>)
             r == add_entity_to_state(m, "view", urn)
         IN  Yield(r,
                <<SnapshotWU(dataset_name, urn, ViewSnapshotAspects(fault), ViewSnapshotPayload(fault))>>
                \o get_dataplatform_instance_aspect(cfg, urn)
                \o <<WorkUnit(view \o <<"-subtypes">>, urn, {"subTypes"}, {"view"}, "upsert"),
                     WorkUnit(<<"viewProperties-">> \o UrnStr(urn), urn, {"viewProperties"},
                              {ViewDefinition(fault)}, "upsert")>>
                \o get_domain_wu(cfg, dataset_name, urn))

\* SQLAlchemySource._process_view
process_view(reg, cfg, dataset_name, schema, view, fault) ==
    LET urn == DatasetUrn(cfg, dataset_name)
        e0 == get_view_columns(NoEffect, dataset_name, fault)
        e1 == get_schema_fields(e0, reg, dataset_name, ColumnsGot(dataset_name, fault))
        e2 == get_table_properties(e1, "view", dataset_name, fault)
        e3 == get_view_definition(e2, dataset_name, fault)
    IN  EmitView(e3, cfg, dataset_name, schema, view, urn, fault)

\* ------------------------------------------------------------------ profiling requests
\* What the profiling hooks of the source class answer.  SQLAlchemySource
\* raises NotImplementedError in generate_profile_candidates and answers None
\* in is_table_partitioned, and ImpalaSource overrides neither; a subclass
\* that does answers with a list of identifiers and with True for some tables.
NoCandidates == [supported |-> FALSE, names |-> {}]
InheritedHooks == [candidates |-> NoCandidates, partitioned |-> {}, location |-> {}]

\* SQLAlchemySource.generate_profile_candidates
generate_profile_candidates(hk, schema) == hk.candidates

\* lines 1275-1279: is generate_profile_candidates called at all?
candidates_wanted(cfg) ==
    \/ cfg.profile_if_updated_since_days # None
    \/ cfg.profile_table_size_limit # None
    \/ cfg.profile_table_row_limit = None

\* loop_profiler_requests taking a list it does not have for an empty list
profile_candidates_or_empty(cfg, hk, schema) ==
    IF candidates_wanted(cfg) /\ generate_profile_candidates(hk, schema).supported
    THEN generate_profile_candidates(hk, schema)
    ELSE [supported |-> TRUE, names |-> {}]

\* lines 1274-1292: the local profile_candidates, None unless the hook was
\* called and did not raise NotImplementedError
profile_candidates(cfg, hk, schema) ==
    IF candidates_wanted(cfg) /\ generate_profile_candidates(hk, schema).supported
    THEN generate_profile_candidates(hk, schema)
    ELSE NoCandidates

\* eligibility without the profile_pattern test
is_dataset_eligible_by_table_pattern(cfg, dataset_name, candidates) ==
    /\ Allowed(cfg.table_pattern, dataset_name)
    /\ \/ ~candidates.supported
       \/ dataset_name \in candidates.names

\* SQLAlchemySource.is_dataset_eligible_for_profiling
is_dataset_eligible_for_profiling(cfg, dataset_name, candidates) ==
    /\ Allowed(cfg.table_pattern, dataset_name)
    /\ Allowed(cfg.profile_pattern, dataset_name)
    /\ \/ ~candidates.supported
       \/ dataset_name \in candidates.names

\* SQLAlchemySource.generate_partition_profiler_query: (None, None)
generate_partition_profiler_query(schema, table) == None

\* the hook answering None for every table
is_table_partitioned_never(hk, schema, table) == FALSE

\* SQLAlchemySource.is_table_partitioned
is_table_partitioned(hk, schema, table) == get_identifier(schema, table) \in hk.partitioned

\* loop_profiler_requests never finding the table among the warnings
missing_column_info_ignored(r, dataset_name) == FALSE

\* lines 1316-1321: is the table among the missing-column-information
\* warnings of the report?
missing_column_info_warn(r, dataset_name) == dataset_name \in WarningsOf(r, MISSING_COLUMN_INFO)

PROFILE_SKIPPED == <<"profile skipped as partitioned table is empty or partition id was invalid">>

\* The for loop of loop_profiler_requests (lines 1294-1358) from entry i of
\* the enumerated tables on; acc is the local tables_seen, the report and
\* the requests yielded so far.
RECURSIVE profiler_requests_from(_, _, _, _, _, _)
profiler_requests_from(cfg, hk, schema, names, i, acc) ==
    IF i > Len(names) THEN acc
    ELSE
    LET table == standardize_schema_table_names(schema, names[i])[2]
        dataset_name == get_identifier(schema, table)
        normalised == normalise_dataset_name(dataset_name)
        partition == generate_partition_profiler_query(schema, table)
        next ==
            IF ~is_dataset_eligible_for_profiling(cfg, dataset_name,
                                                  profile_candidates(cfg, hk, schema))
            THEN IF cfg.report_dropped_profiles
                 THEN [acc EXCEPT !.report =
                          report_dropped(@, <<"profile of ">> \o dataset_name)]
                 ELSE acc
            ELSE IF normalised \in acc.seen THEN acc
            ELSE LET a == [acc EXCEPT !.seen = @ \cup {normalised}]
                 IN  IF missing_column_info_warn(a.report, normalised) THEN a
                     ELSE IF partition = None /\ is_table_partitioned(hk, schema, table)
                     THEN [a EXCEPT !.report = report_warning(@, PROFILE_SKIPPED, normalised)]
                     ELSE IF partition # None /\ ~cfg.partition_profiling_enabled THEN a
                     ELSE [a EXCEPT !.report = report_entity_profiled(@),
                                    !.requests = Append(@, normalised)]
    IN  profiler_requests_from(cfg, hk, schema, names, i + 1, next)

\* ------------------------------------------------------------------ stale entities
RECURSIVE SetToSeq(_)
SetToSeq(S) ==
    IF S = {} THEN <<>>
    ELSE LET x == CHOOSE y \in S : TRUE IN <<x>> \o SetToSeq(S \ {x})

\* StaleEntityRemovalHandler.gen_removed_entity_workunits: one retraction for
\* every id of the previous checkpoint state that this run did not register
gen_removed_entity_workunits(last_state, cur_state) ==
    LET removed == SetToSeq(last_state \ cur_state)
    IN  [i \in DOMAIN removed |-> RetractionWU(removed[i])]

\* ------------------------------------------------------------------ state
VARIABLES
    recipe,            \* config_dict, the recipe as written
    config,            \* the parsed recipe
    tables,            \* source: schema index -> what get_table_names returns
    views,             \* source: schema index -> what get_view_names returns
    last_state,        \* the checkpoint state the previous run persisted
    run,               \* the number of the current run
    pc,                \* where get_workunits stands
    si,                \* index of the current schema in SchemaNames
    ti,                \* index of the current entry of the enumerated list
    tables_seen,       \* loop_tables' local set
    profile_requests,  \* get_workunits' local list
    pending,           \* requests the profiler has not answered yet
    stream,            \* the work units yielded so far
    report,            \* SQLSourceReport
    cur_state,         \* the ids registered with the tracker in this run
    adds,              \* the registrations, in order, with their stream position
    calls,             \* the adapter lookups made so far
    faults,            \* the lookups the adapter has failed so far
    history,           \* the completed runs: their stream, ids, lookups and report
    registry,          \* _field_type_mapping and _known_unknown_field_types
    registered,        \* the register_custom_type calls made so far, in order
    mapped,            \* the get_column_type calls made so far, with their result
    connections,       \* the engine.connect() calls of the run and the handles still open
    hooks,             \* what the profiling hooks of the source class answer
    adapter            \* how the lookups of the inspector can fail

vars == <<recipe, config, tables, views, last_state, run, pc, si, ti, tables_seen,
          profile_requests, pending, stream, report, cur_state, adds, calls, faults, history,
          registry, registered, mapped, connections, hooks, adapter>>

\* the module-level type registry and what was asked of it
type_registry == <<registry, registered, mapped>>

source == <<recipe, config, tables, views, last_state, run, history, type_registry, hooks,
           adapter>>

\* the modules sql_common and impala have been imported
ModulesImported ==
    /\ registry = ImportedRegistry
    /\ registered = ImpalaRegistrations
    /\ mapped = <<>>

\* the entries of a source layout
Entries(layout) == Len(layout[1]) + Len(layout[2])

TableLayouts ==
    {l \in [1..Len(SchemaNames) -> SeqsUpTo(TableNames, MaxTables)] : Entries(l) <= MaxTables}
ViewLayouts ==
    {l \in [1..Len(SchemaNames) -> SeqsUpTo(ViewNames, MaxViews)] : Entries(l) <= MaxViews}

\* the checkpoint states a previous run can have left: none, or three tables
\* of which sales.gone is no longer in the source
PrevStates ==
    {{},
     {DatasetUrn(ParseConfig(CHOOSE r \in RawConfigs : TRUE), n) :
        n \in {get_identifier(SchemaSales, TableOrders),
               get_identifier(SchemaSales, <<"gone">>),
               get_identifier(SchemaSales, TableTmpScratch)}}}

\* engine.connect(): a handle is acquired
NoConnections == [acquired |-> 0, open |-> {}]
Connect(c, handle) == [acquired |-> c.acquired + 1, open |-> c.open \cup {handle}]
\* conn.close(), at the exit of the with block of get_inspectors
Close(c, handle) == [c EXCEPT !.open = @ \ {handle}]

\* ImpalaSource.__init__: a fresh report and a fresh tracker, and the
\* SQLAlchemyClient, which connects and reports the connection url
StartOfRun ==
    /\ pc = "start"
    /\ si = 0
    /\ ti = 0
    /\ tables_seen = {}
    /\ profile_requests = <<>>
    /\ pending = {}
    /\ stream = <<>>
    /\ report = report_warning(NewReport, <<"url">>, get_sql_alchemy_url(config))
    /\ cur_state = {}
    /\ adds = <<>>
    /\ calls = {}
    /\ connections = Connect(NoConnections, "client")

\* inputs the run never reads are left at their defaults
Relevant ==
    /\ ~config.include_views => Entries(views) = 0
    /\ ~config.include_tables /\ ~config.profiling_enabled => Entries(tables) = 0

Init ==
    /\ recipe \in RawConfigs
    /\ config = ParseConfig(recipe)
    /\ tables \in TableLayouts
    /\ views \in ViewLayouts
    /\ last_state \in PrevStates
    /\ run = 1
    /\ faults = 0
    /\ history = <<>>
    /\ StartOfRun
    /\ ModulesImported
    /\ hooks = InheritedHooks
    /\ adapter = DefaultAdapter
    /\ Relevant

\* ------------------------------------------------------------------ get_workunits
schema == SchemaNames[si]

\* what follows loop_views, loop_tables and gen_schema_containers for one
\* schema (lines 657-666); "schemas" is the next iteration of the for loop
AfterViews == IF config.profiling_enabled THEN "profreq" ELSE "schemas"
AfterTables == IF config.include_views THEN "views" ELSE AfterViews
AfterContainers == IF config.include_tables THEN "tables" ELSE AfterTables

Goto(label) ==
    /\ pc' = label
    /\ si' = IF label = "schemas" THEN si + 1 ELSE si

\* the effect of one entity, its work-unit ids carrying the number of the run
ApplyStamped(e) ==
    /\ stream' = stream \o [i \in DOMAIN e.wus |->
                              [e.wus[i] EXCEPT !.id = @ \o <<"-run", IF run = 1 THEN "1" ELSE "n">>]]
    /\ adds' = adds \o [i \in DOMAIN e.adds |->
                          [e.adds[i] EXCEPT !.at = @ + Len(stream)]]
    /\ cur_state' = cur_state \cup {e.adds[i].urn : i \in DOMAIN e.adds}
    /\ calls' = calls \cup e.calls

\* appends the effect of one entity to the run's state
Apply(e) ==
    /\ stream' = stream \o e.wus
    /\ adds' = adds \o [i \in DOMAIN e.adds |->
                          [e.adds[i] EXCEPT !.at = @ + Len(stream)]]
    /\ cur_state' = cur_state \cup {e.adds[i].urn : i \in DOMAIN e.adds}
    /\ calls' = calls \cup e.calls

\* get_workunits catching the exception of get_db_name and going on to the
\* stale entity removal
GetDbNameFailsCaught ==
    /\ faults < MaxFaults
    /\ faults' = faults + 1
    /\ pc = "start"
    /\ pc' = "finalize"
    /\ connections' = Close(Connect(connections, "inspector"), "inspector")
    /\ UNCHANGED <<source, si, ti, tables_seen, profile_requests, pending, stream,
                   report, cur_state, adds, calls>>

\* get_db_name raises (line 645): the exception leaves get_workunits
GetDbNameFails ==
    /\ faults < MaxFaults
    /\ faults' = faults + 1
    /\ pc = "start"
    /\ pc' = "aborted"
    /\ connections' = Close(Connect(connections, "inspector"), "inspector")
    /\ UNCHANGED <<source, si, ti, tables_seen, profile_requests, pending, stream,
                   report, cur_state, adds, calls>>

\* lines 639-648: the inspector, the database name, gen_database_containers
GenDatabaseContainers ==
    /\ pc = "start"
    /\ LET urn == DatabaseContainerUrn(config, DB_NAME)
       IN  Apply(Yield(add_entity_to_state(NoEffect, "container", urn), <<ContainerWU(urn)>>))
    /\ pc' = "schemas"
    /\ si' = 1
    /\ connections' = Connect(connections, "inspector")
    /\ UNCHANGED <<source, ti, tables_seen, profile_requests, pending, report, faults>>

\* get_allowed_schemas yielding the schema it has reported as dropped
SchemaDeniedScanned ==
    /\ pc = "schemas"
    /\ si <= Len(SchemaNames)
    /\ ~Allowed(config.schema_pattern, schema)
    /\ report' = report_dropped(report, schema \o <<".*">>)
    /\ Goto(AfterContainers)
    /\ UNCHANGED <<source, connections, ti, tables_seen, profile_requests, pending, stream,
                   cur_state, adds, calls, faults>>

\* get_allowed_schemas (lines 618-621): a schema the pattern denies
SchemaDenied ==
    /\ pc = "schemas"
    /\ si <= Len(SchemaNames)
    /\ ~Allowed(config.schema_pattern, schema)
    /\ report' = report_dropped(report, schema \o <<".*">>)
    /\ si' = si + 1
    /\ UNCHANGED <<source, connections, pc, ti, tables_seen, profile_requests, pending, stream,
                   cur_state, adds, calls, faults>>

\* get_workunits going on to the tables of a schema without
\* gen_schema_containers
SkipSchemaContainers ==
    /\ pc = "schemas"
    /\ si <= Len(SchemaNames)
    /\ Allowed(config.schema_pattern, schema)
    /\ Goto(AfterContainers)
    /\ UNCHANGED <<source, connections, ti, tables_seen, profile_requests, pending, report, faults,
                   stream, adds, cur_state, calls>>

\* get_allowed_schemas yields the schema; gen_schema_containers (lines 650-655)
GenSchemaContainers ==
    /\ pc = "schemas"
    /\ si <= Len(SchemaNames)
    /\ Allowed(config.schema_pattern, schema)
    /\ LET urn == SchemaContainerUrn(config, DB_NAME, schema)
       IN  Apply(Yield(add_entity_to_state(NoEffect, "container", urn), <<ContainerWU(urn)>>))
    /\ Goto(AfterContainers)
    /\ UNCHANGED <<source, connections, ti, tables_seen, profile_requests, pending, report, faults>>

\* ------------------------------------------------------------------ loop_tables
\* inspector.get_table_names raises: the outer except of loop_tables
\* (lines 801-802) reports a failure for the schema
GetTableNamesFails ==
    /\ faults < MaxFaults
    /\ faults' = faults + 1
    /\ pc = "tables"
    /\ report' = report_failure(report, schema, <<"Tables error">>)
    /\ Goto(AfterTables)
    /\ UNCHANGED <<source, connections, ti, tables_seen, profile_requests, pending, stream,
                   cur_state, adds, calls>>

\* lines 767-769: tables_seen = set(), the tables are enumerated
GetTableNames ==
    /\ pc = "tables"
    /\ pc' = "table_loop"
    /\ ti' = 1
    /\ tables_seen' = {}
    /\ UNCHANGED <<source, connections, si, profile_requests, pending, stream, report,
                   cur_state, adds, calls, faults>>

table == tables[si][ti]
table_name == DatasetName(schema, table)

\* loop_tables without its seen-set
AlreadySeenNever(dataset_name, seen) == FALSE

\* line 779: has loop_tables seen the identifier?
AlreadySeen(dataset_name, seen) == dataset_name \in seen

\* loop_tables without the table_pattern test
TableAllowedAlways(cfg, dataset_name) == TRUE

\* line 786: does table_pattern admit the identifier?
TableAllowed(cfg, dataset_name) == Allowed(cfg.table_pattern, dataset_name)

\* loop_tables with the try around the for loop: an exception ends the loop
NextTableAbort(i, raised) == IF raised THEN i + MaxTables ELSE i + 1

\* the entry loop_tables takes up after entry i, whose processing raised or not
NextTable(i, raised) == i + 1

\* lines 781-783: an identifier seen before is skipped
TableSeen ==
    /\ pc = "table_loop"
    /\ ti <= Len(tables[si])
    /\ AlreadySeen(table_name, tables_seen)
    /\ ti' = NextTable(ti, FALSE)
    /\ UNCHANGED <<source, connections, pc, si, tables_seen, profile_requests, pending, stream,
                   report, cur_state, adds, calls, faults>>

\* lines 785-788: the table is counted, table_pattern denies it
TableDropped ==
    /\ pc = "table_loop"
    /\ ti <= Len(tables[si])
    /\ ~AlreadySeen(table_name, tables_seen)
    /\ ~TableAllowed(config, table_name)
    /\ tables_seen' = tables_seen \cup {table_name}
    /\ report' = report_dropped(report_entity_scanned(report, "table"), table_name)
    /\ ti' = NextTable(ti, FALSE)
    /\ UNCHANGED <<source, connections, pc, si, profile_requests, pending, stream, cur_state, adds, calls, faults>>

\* lines 785-800: the table is counted and processed; an exception of
\* _process_table is reported as a warning for schema.table
ProcessTable ==
    /\ pc = "table_loop"
    /\ ti <= Len(tables[si])
    /\ ~AlreadySeen(table_name, tables_seen)
    /\ TableAllowed(config, table_name)
    /\ tables_seen' = tables_seen \cup {table_name}
    /\ \E fault \in adapter.table :
         /\ fault # "none" => faults < MaxFaults
         /\ faults' = IF fault # "none" THEN faults + 1 ELSE faults
         /\ LET e == process_table(registry, config, hooks, table_name, schema, table, fault)
                r == report_warnings(report_entity_scanned(report, "table"), e.warnings)
            IN  /\ Apply(e)
                /\ report' = IF e.raised
                             THEN report_warning(r, schema \o <<".">> \o table, <<"Ingestion error">>)
                             ELSE r
                /\ ti' = NextTable(ti, e.raised)
    /\ UNCHANGED <<source, connections, pc, si, profile_requests, pending>>

\* the for loop of loop_tables is exhausted
TablesDone ==
    /\ pc = "table_loop"
    /\ ti > Len(tables[si])
    /\ Goto(AfterTables)
    /\ UNCHANGED <<source, connections, ti, tables_seen, profile_requests, pending, stream, report,
                   cur_state, adds, calls, faults>>

\* ------------------------------------------------------------------ loop_views
\* inspector.get_view_names raises: the outer except of loop_views
\* (lines 1098-1099)
GetViewNamesFails ==
    /\ faults < MaxFaults
    /\ faults' = faults + 1
    /\ pc = "views"
    /\ report' = report_failure(report, schema, <<"Views error">>)
    /\ Goto(AfterViews)
    /\ UNCHANGED <<source, connections, ti, tables_seen, profile_requests, pending, stream,
                   cur_state, adds, calls>>

\* line 1068: the views are enumerated
GetViewNames ==
    /\ pc = "views"
    /\ pc' = "view_loop"
    /\ ti' = 1
    /\ UNCHANGED <<source, connections, si, tables_seen, profile_requests, pending, stream, report,
                   cur_state, adds, calls, faults>>

view == views[si][ti]
view_name == DatasetName(schema, view)

\* loop_views testing table_pattern instead of view_pattern
ViewAllowedByTablePattern(cfg, dataset_name) == Allowed(cfg.table_pattern, dataset_name)

\* line 1079: does view_pattern admit the identifier?
ViewAllowed(cfg, dataset_name) == Allowed(cfg.view_pattern, dataset_name)

\* lines 1077-1081: the view is counted, view_pattern denies it
ViewDropped ==
    /\ pc = "view_loop"
    /\ ti <= Len(views[si])
    /\ ~ViewAllowed(config, view_name)
    /\ report' = report_dropped(report_entity_scanned(report, "view"), view_name)
    /\ ti' = ti + 1
    /\ UNCHANGED <<source, connections, pc, si, tables_seen, profile_requests, pending, stream,
                   cur_state, adds, calls, faults>>

\* loop_views with the seen-set of loop_tables: a view whose identifier the
\* loop has taken up before is skipped
ProcessViewOnce ==
    /\ pc = "view_loop"
    /\ ti <= Len(views[si])
    /\ ViewAllowed(config, view_name)
    /\ IF \E m \in 1..(ti - 1) : DatasetName(schema, views[si][m]) = view_name
       THEN UNCHANGED <<stream, adds, cur_state, calls, report, faults>>
       ELSE \E fault \in adapter.view :
              /\ fault # "none" => faults < MaxFaults
              /\ faults' = IF fault # "none" THEN faults + 1 ELSE faults
              /\ LET e == process_view(registry, config, view_name, schema, view, fault)
                     r == report_warnings(report_entity_scanned(report, "view"), e.warnings)
                 IN  /\ Apply(e)
                     /\ report' = IF e.raised
                                  THEN report_warning(r, schema \o <<".">> \o view,
                                                      <<"Ingestion error">>)
                                  ELSE r
    /\ ti' = ti + 1
    /\ UNCHANGED <<source, connections, pc, si, tables_seen, profile_requests, pending>>

\* lines 1077-1097: the view is counted and processed; an exception of
\* _process_view is reported as a warning for schema.view
ProcessView ==
    /\ pc = "view_loop"
    /\ ti <= Len(views[si])
    /\ ViewAllowed(config, view_name)
    /\ \E fault \in adapter.view :
         /\ fault # "none" => faults < MaxFaults
         /\ faults' = IF fault # "none" THEN faults + 1 ELSE faults
         /\ LET e == process_view(registry, config, view_name, schema, view, fault)
                r == report_warnings(report_entity_scanned(report, "view"), e.warnings)
            IN  /\ Apply(e)
                /\ report' = IF e.raised
                             THEN report_warning(r, schema \o <<".">> \o view, <<"Ingestion error">>)
                             ELSE r
    /\ ti' = ti + 1
    /\ UNCHANGED <<source, connections, pc, si, tables_seen, profile_requests, pending>>

\* the for loop of loop_views is exhausted
ViewsDone ==
    /\ pc = "view_loop"
    /\ ti > Len(views[si])
    /\ Goto(AfterViews)
    /\ UNCHANGED <<source, connections, ti, tables_seen, profile_requests, pending, stream, report,
                   cur_state, adds, calls, faults>>

\* ------------------------------------------------------------------ profiling
\* inspector.get_table_names raises in loop_profiler_requests (line 1294):
\* nothing catches it, the exception leaves get_workunits
ProfilerGetTableNamesFails ==
    /\ faults < MaxFaults
    /\ faults' = faults + 1
    /\ pc = "profreq"
    /\ pc' = "aborted"
    /\ connections' = Close(connections, "inspector")
    /\ UNCHANGED <<source, si, ti, tables_seen, profile_requests, pending, stream,
                   report, cur_state, adds, calls>>

\* lines 663-666: profile_requests += list(loop_profiler_requests(...))
LoopProfilerRequests ==
    /\ pc = "profreq"
    /\ LET acc == profiler_requests_from(config, hooks, schema, tables[si], 1,
                     [seen |-> {}, report |-> report, requests |-> <<>>])
       IN  /\ report' = acc.report
           /\ profile_requests' = profile_requests \o acc.requests
    /\ Goto("schemas")
    /\ UNCHANGED <<source, connections, ti, tables_seen, pending, stream, cur_state, adds, calls, faults>>

\* get_workunits removing the stale entities before the profiling pass
SchemasDoneRetracting ==
    /\ pc = "schemas"
    /\ si > Len(SchemaNames)
    /\ stream' = stream \o gen_removed_entity_workunits(last_state, cur_state)
    /\ IF config.profiling_enabled /\ profile_requests # <<>>
       THEN /\ pc' = "profile"
            /\ pending' = {profile_requests[i] : i \in DOMAIN profile_requests}
            /\ UNCHANGED connections
       ELSE /\ pc' = "done"
            /\ UNCHANGED pending
            /\ connections' = Close(connections, "inspector")
    /\ UNCHANGED <<source, si, ti, tables_seen, profile_requests, report,
                   cur_state, adds, calls, faults>>

\* the schemas are exhausted (lines 668-671): the requests go to the profiler
SchemasDone ==
    /\ pc = "schemas"
    /\ si > Len(SchemaNames)
    /\ IF config.profiling_enabled /\ profile_requests # <<>>
       THEN /\ pc' = "profile"
            /\ pending' = {profile_requests[i] : i \in DOMAIN profile_requests}
            /\ UNCHANGED connections
       ELSE /\ pc' = "finalize"
            /\ UNCHANGED pending
            /\ connections' = Close(connections, "inspector")
    /\ UNCHANGED <<source, si, ti, tables_seen, profile_requests, stream, report,
                   cur_state, adds, calls, faults>>

\* loop_profiler without the test of line 1372: a work unit for every pair
LoopProfilerEmittingNone ==
    /\ pc = "profile"
    /\ \E dataset_name \in pending, profiled \in BOOLEAN :
         /\ pending' = pending \ {dataset_name}
         /\ calls' = calls \cup {Call("generate_profiles", "profile", dataset_name,
                                     IF profiled THEN "ok" ELSE "none")}
         /\ stream' = Append(stream,
                             WorkUnit(<<"profile-">> \o dataset_name,
                                      DatasetUrn(config, dataset_name),
                                      {"datasetProfile"}, {}, "upsert"))
    /\ UNCHANGED <<source, connections, pc, si, ti, tables_seen, profile_requests, report,
                   cur_state, adds, faults>>

\* loop_profiler (lines 1366-1391): the profiler answers one request, in
\* any order, with a profile or with None
LoopProfiler ==
    /\ pc = "profile"
    /\ \E dataset_name \in pending, profiled \in BOOLEAN :
         /\ pending' = pending \ {dataset_name}
         /\ calls' = calls \cup {Call("generate_profiles", "profile", dataset_name,
                                     IF profiled THEN "ok" ELSE "none")}
         /\ stream' = IF profiled
                      THEN Append(stream,
                             WorkUnit(<<"profile-">> \o dataset_name,
                                      DatasetUrn(config, dataset_name),
                                      {"datasetProfile"}, {}, "upsert"))
                      ELSE stream
    /\ UNCHANGED <<source, connections, pc, si, ti, tables_seen, profile_requests, report,
                   cur_state, adds, faults>>

\* generate_profiles is exhausted
ProfilerDone ==
    /\ pc = "profile"
    /\ pending = {}
    /\ pc' = "finalize"
    /\ connections' = Close(connections, "inspector")
    /\ UNCHANGED <<source, si, ti, tables_seen, profile_requests, pending, stream,
                   report, cur_state, adds, calls, faults>>

\* the removal ignoring what this run registered
FinalizeAll ==
    /\ pc = "finalize"
    /\ stream' = stream \o gen_removed_entity_workunits(last_state, {})
    /\ pc' = "done"
    /\ UNCHANGED <<source, connections, si, ti, tables_seen, profile_requests, pending, report,
                   cur_state, adds, calls, faults>>

\* line 674: the stale entities are removed, last of all
Finalize ==
    /\ pc = "finalize"
    /\ stream' = stream \o gen_removed_entity_workunits(last_state, cur_state)
    /\ pc' = "done"
    /\ UNCHANGED <<source, connections, si, ti, tables_seen, profile_requests, pending, report,
                   cur_state, adds, calls, faults>>

Next ==
    \/ GetDbNameFails
    \/ GenDatabaseContainers
    \/ SchemaDenied
    \/ GenSchemaContainers
    \/ GetTableNamesFails
    \/ GetTableNames
    \/ TableSeen
    \/ TableDropped
    \/ ProcessTable
    \/ TablesDone
    \/ GetViewNamesFails
    \/ GetViewNames
    \/ ViewDropped
    \/ ProcessView
    \/ ViewsDone
    \/ ProfilerGetTableNamesFails
    \/ LoopProfilerRequests
    \/ SchemasDone
    \/ LoopProfiler
    \/ ProfilerDone
    \/ Finalize

Spec == Init /\ [][Next]_vars

\* ------------------------------------------------------------------ successive runs
\* most runs of the pipeline against the source
MaxRuns == 2

\* a checkpoint that accumulates: the ids of this run are added to the
\* previous state
NextRunUnion ==
    /\ pc = "done"
    /\ run < MaxRuns
    /\ run' = run + 1
    /\ last_state' = last_state \cup cur_state
    /\ history' = Append(history, [stream |-> stream, cur_state |-> cur_state,
                                    last_state |-> last_state, calls |-> calls,
                                    report |-> report])
    /\ pc' = "start"
    /\ si' = 0
    /\ ti' = 0
    /\ tables_seen' = {}
    /\ profile_requests' = <<>>
    /\ pending' = {}
    /\ stream' = <<>>
    /\ report' = report_warning(NewReport, <<"url">>, get_sql_alchemy_url(config))
    /\ cur_state' = {}
    /\ adds' = <<>>
    /\ calls' = {}
    /\ connections' = Connect(NoConnections, "client")
    /\ UNCHANGED <<recipe, config, tables, views, faults, type_registry, hooks, adapter>>

\* A completed run persists the ids it registered as the new checkpoint
\* state, replacing the previous one; the next run starts from a new source
\* object (ImpalaSource.__init__).
NextRun ==
    /\ pc = "done"
    /\ run < MaxRuns
    /\ run' = run + 1
    /\ last_state' = cur_state
    /\ history' = Append(history, [stream |-> stream, cur_state |-> cur_state,
                                    last_state |-> last_state, calls |-> calls,
                                    report |-> report])
    /\ pc' = "start"
    /\ si' = 0
    /\ ti' = 0
    /\ tables_seen' = {}
    /\ profile_requests' = <<>>
    /\ pending' = {}
    /\ stream' = <<>>
    /\ report' = report_warning(NewReport, <<"url">>, get_sql_alchemy_url(config))
    /\ cur_state' = {}
    /\ adds' = <<>>
    /\ calls' = {}
    /\ connections' = Connect(NoConnections, "client")
    /\ UNCHANGED <<recipe, config, tables, views, faults, type_registry, hooks, adapter>>

\* the recipes the successive runs are checked for: tables and views with
\* the default patterns, or profiling too with every pattern denying something
RunsScope ==
    /\ config.include_tables /\ config.include_views
    /\ \/ /\ config.schema_pattern = AllowAll /\ config.table_pattern = AllowAll
          /\ config.view_pattern = AllowAll /\ ~config.profiling_enabled
       \/ /\ config.schema_pattern = DenyTmpPrefix /\ config.table_pattern = DenyTmpTables
          /\ config.view_pattern = DenyOrders /\ config.profiling_enabled

InitRuns == Init /\ RunsScope

NextRuns == Next \/ NextRun

SpecRuns == InitRuns /\ [][NextRuns]_vars

\* ------------------------------------------------------------------ repeated entities
\* longest list inspector.get_view_names returns when views can repeat
MaxViewsWide == 2

\* the recipes with table_pattern denying tmp_ tables, with and without
\* profiling.report_dropped_profiles
WideConfigs ==
    {[r EXCEPT !.report_dropped_profiles = b] :
        r \in {x \in RawConfigs : x.include_tables /\ x.include_views
                                  /\ x.table_pattern = DenyTmpTables},
        b \in BOOLEAN}

\* a source whose schemas can hold the same view, or the same view twice
ViewLayoutsWide ==
    {l \in [1..Len(SchemaNames) -> SeqsUpTo(ViewNames, MaxViewsWide)] :
        Entries(l) <= MaxViewsWide}

InitWide ==
    /\ recipe \in {c \in WideConfigs : c.report_dropped_profiles => c.profiling_enabled}
    /\ config = ParseConfig(recipe)
    /\ tables \in TableLayouts
    /\ views \in ViewLayoutsWide
    /\ last_state = {}
    /\ run = 1
    /\ faults = 0
    /\ history = <<>>
    /\ StartOfRun
    /\ ModulesImported
    /\ hooks = InheritedHooks
    /\ adapter = DefaultAdapter

SpecWide == InitWide /\ [][Next]_vars

\* ------------------------------------------------------------------ domains
\* make_domain_urn(domain) of the domain keys of the recipes
DomainSales == <<"urn:li:domain:", "Sales">>
DomainOrders == <<"urn:li:domain:", "Orders">>
DomainHr == <<"urn:li:domain:", "HR">>
\* allow: ["sales.*"]
P1 == [domain |-> DomainSales, pattern |-> [allow |-> {<<"sales", ".*">>}, deny |-> {}]]
\* allow: [".*\.orders"]
P2 == [domain |-> DomainOrders, pattern |-> [allow |-> {<<".*", ".", "orders">>}, deny |-> {}]]
\* allow: ["hr.*"]
P3 == [domain |-> DomainHr, pattern |-> [allow |-> {<<"hr", ".*">>}, deny |-> {}]]

\* config.domain: the entries in their declaration order
DomainMaps == {<<>>, <<P3>>, <<P1, P2>>, <<P2, P1>>, <<P2, P3>>, <<P1, P2, P3>>}

DomainConfigs ==
    {[r EXCEPT !.domain = dm] :
        r \in {x \in RawConfigs : /\ x.include_tables /\ x.include_views
                                  /\ x.profiling_enabled
                                  /\ x.schema_pattern = DenyTmpPrefix
                                  /\ x.table_pattern = DenyTmpTables},
        dm \in DomainMaps}

InitDomain ==
    /\ recipe \in DomainConfigs
    /\ config = ParseConfig(recipe)
    /\ tables \in TableLayouts
    /\ views \in ViewLayouts
    /\ last_state = {}
    /\ run = 1
    /\ faults = 0
    /\ history = <<>>
    /\ StartOfRun
    /\ ModulesImported
    /\ hooks = InheritedHooks
    /\ adapter = DefaultAdapter

SpecDomain == InitDomain /\ [][Next]_vars

\* ------------------------------------------------------------------ profiling hooks
\* the recipes with profiling: table_pattern and profile_pattern each deny
\* something or nothing, and profile_table_size_limit is null or not, which
\* with the other two limits decides whether the candidates are asked for
ProfilingConfigs ==
    {[r EXCEPT !.profile_pattern = pp, !.profile_table_size_limit = lim] :
        r \in {x \in RawConfigs : /\ x.include_tables /\ x.include_views
                                  /\ x.profiling_enabled
                                  /\ x.schema_pattern = DenyTmpPrefix},
        pp \in {Unset, DenyOrders},
        lim \in {None, <<"5">>}}

\* source classes: the hooks as inherited, or overridden to answer with the
\* candidate list [sales.orders] and with True for sales.tmp_scratch
HookSets ==
    [candidates : {NoCandidates,
                   [supported |-> TRUE, names |-> {get_identifier(SchemaSales, TableOrders)}]},
     partitioned : {{}, {get_identifier(SchemaSales, TableTmpScratch)}},
     location : {{}}]

InitProfiling ==
    /\ recipe \in ProfilingConfigs
    /\ config = ParseConfig(recipe)
    /\ tables \in TableLayouts
    /\ views \in ViewLayouts
    /\ last_state = {}
    /\ run = 1
    /\ faults = 0
    /\ history = <<>>
    /\ StartOfRun
    /\ ModulesImported
    /\ hooks \in HookSets
    /\ adapter = DefaultAdapter

SpecProfiling == InitProfiling /\ [][Next]_vars

\* ------------------------------------------------------------------ location lineage
\* a source class whose get_table_properties answers with a storage location
\* for sales.orders, as the hook invites its subclasses to
LocationHooks == [InheritedHooks EXCEPT !.location = {get_identifier(SchemaSales, TableOrders)}]

InitLineage ==
    /\ recipe \in {r \in RawConfigs : r.include_tables /\ r.include_views}
    /\ config = ParseConfig(recipe)
    /\ tables \in TableLayouts
    /\ views \in ViewLayouts
    /\ last_state = {}
    /\ run = 1
    /\ faults = 0
    /\ history = <<>>
    /\ StartOfRun
    /\ ModulesImported
    /\ hooks = LocationHooks
    /\ adapter = DefaultAdapter

SpecLineage == InitLineage /\ [][Next]_vars

\* ------------------------------------------------------------------ optional lookups
InitLookups ==
    /\ recipe \in {r \in RawConfigs : r.include_tables /\ r.include_views}
    /\ config = ParseConfig(recipe)
    /\ tables \in TableLayouts
    /\ views \in ViewLayouts
    /\ last_state = {}
    /\ run = 1
    /\ faults = 0
    /\ history = <<>>
    /\ StartOfRun
    /\ ModulesImported
    /\ hooks = InheritedHooks
    /\ adapter = LookupAdapter

SpecLookups == InitLookups /\ [][Next]_vars

\* ------------------------------------------------------------------ view pattern
\* the recipes with tables and views included: table_pattern absent or
\* denying the orders entities, view_pattern absent, written as the empty
\* mapping, or denying the tmp_ entities
ViewPatternConfigs ==
    {[r EXCEPT !.table_pattern = tp, !.view_pattern = vp] :
        r \in {x \in RawConfigs : x.include_tables /\ x.include_views},
        tp \in {Unset, DenyOrders},
        vp \in {Unset, EmptyMapping, DenyTmpTables}}

InitViewPattern ==
    /\ recipe \in ViewPatternConfigs
    /\ config = ParseConfig(recipe)
    /\ tables \in TableLayouts
    /\ views \in ViewLayouts
    /\ last_state = {}
    /\ run = 1
    /\ faults = 0
    /\ history = <<>>
    /\ StartOfRun
    /\ ModulesImported
    /\ hooks = InheritedHooks
    /\ adapter = DefaultAdapter

SpecViewPattern == InitViewPattern /\ [][Next]_vars

\* ------------------------------------------------------------------ type registry
\* most register_custom_type calls after the import
MaxRegistrations == 2
\* most get_column_type calls
MaxColumns == 2

\* the classes a source registers, the outputs it registers them with, and
\* the classes of the columns it meets
RegisteredTypes == {"HiveDate", "VendorText", "Date"}
Outputs == {"StringTypeClass", "RecordTypeClass", NoOutput}
ColumnTypes == {"HiveDate", "VendorText", "Date", "Text", "postgresql.TIMESTAMP",
                "Interval", "Geometry"}

\* everything of a run but the report
ingestion == <<recipe, config, tables, views, last_state, run, history, pc, si, ti, tables_seen,
               profile_requests, pending, stream, cur_state, adds, calls, faults,
               connections, hooks, adapter>>

InitTypes ==
    /\ recipe = (CHOOSE r \in RawConfigs : r.include_tables /\ r.schema_pattern = Unset)
    /\ config = ParseConfig(recipe)
    /\ tables = [j \in 1..Len(SchemaNames) |-> <<>>]
    /\ views = [j \in 1..Len(SchemaNames) |-> <<>>]
    /\ last_state = {}
    /\ run = 1
    /\ faults = 0
    /\ history = <<>>
    /\ StartOfRun
    /\ ModulesImported
    /\ hooks = InheritedHooks
    /\ adapter = DefaultAdapter

\* register_custom_type(tp, output), called by a source module
RegisterCustomType ==
    /\ Len(registered) < Len(ImpalaRegistrations) + MaxRegistrations
    /\ \E tp \in RegisteredTypes, output \in Outputs :
         /\ registry' = register_custom_type(registry, tp, output)
         /\ registered' = Append(registered, <<tp, output>>)
    /\ UNCHANGED <<ingestion, report, mapped>>

\* get_column_type(report, dataset_name, column_type) for a column of
\* sales.orders
GetColumnType ==
    /\ Len(mapped) < MaxColumns
    /\ \E column_type \in ColumnTypes :
         LET r == get_column_type(registry, column_type)
         IN  /\ mapped' = Append(mapped, [column_type |-> column_type, type |-> r.type,
                                          after |-> Len(registered)])
             /\ report' = IF r.warned
                          THEN report_warning(report, get_identifier(SchemaSales, TableOrders),
                                              <<"unable to map type ", column_type,
                                                " to metadata schema">>)
                          ELSE report
    /\ UNCHANGED <<ingestion, registry, registered>>

NextTypes == RegisterCustomType \/ GetColumnType

SpecTypes == InitTypes /\ [][NextTypes]_vars

\* ------------------------------------------------------------------ observations
Retractions(str) == {i \in DOMAIN str : str[i].op = "retract"}
Retracted(str) == {str[i].urn : i \in Retractions(str)}
Registered == {adds[i].urn : i \in DOMAIN adds}
RegisteredAs(kind) == {adds[i].urn : i \in {k \in DOMAIN adds : adds[k].kind = kind}}
HasFailure(key, reason) ==
    \E i \in DOMAIN report.failures : report.failures[i] = <<key, reason>>
HasWarning(r, key, reason) ==
    \E i \in DOMAIN r.warnings : r.warnings[i] = <<key, reason>>
Dropped(ent_name) == \E i \in DOMAIN report.filtered : report.filtered[i] = ent_name

TableNameAt(j, k) == DatasetName(SchemaNames[j], tables[j][k])
ViewNameAt(j, k) == DatasetName(SchemaNames[j], views[j][k])

\* loop_tables has enumerated schema j and is through with its entries
TableLoopOver(j) ==
    /\ config.include_tables
    /\ Allowed(config.schema_pattern, SchemaNames[j])
    /\ ~HasFailure(SchemaNames[j], <<"Tables error">>)
    /\ \/ j < si
       \/ j = si /\ pc \in {"views", "view_loop", "profreq", "aborted"}

\* the entries <<j, k>> of the table lists loop_tables has been through
TableEntriesReached ==
    {jk \in UNION {{<<j, k>> : k \in DOMAIN tables[j]} : j \in DOMAIN SchemaNames} :
        \/ TableLoopOver(jk[1])
        \/ jk[1] = si /\ pc = "table_loop" /\ jk[2] < ti}

\* loop_views has enumerated schema j and is through with its entries
ViewLoopOver(j) ==
    /\ config.include_views
    /\ Allowed(config.schema_pattern, SchemaNames[j])
    /\ ~HasFailure(SchemaNames[j], <<"Views error">>)
    /\ \/ j < si
       \/ j = si /\ pc \in {"profreq", "aborted"}

\* the entries <<j, k>> of the view lists loop_views has been through
ViewEntriesReached ==
    {jk \in UNION {{<<j, k>> : k \in DOMAIN views[j]} : j \in DOMAIN SchemaNames} :
        \/ ViewLoopOver(jk[1])
        \/ jk[1] = si /\ pc = "view_loop" /\ jk[2] < ti}

\* the adapter lookups made for one entity
CallsFor(kind, dataset_name) == {c \in calls : c.kind = kind /\ c.name = dataset_name}

\* the tables whose column fetch raised, among the lookups cs
ColumnFetchRaised(cs) ==
    {c.name : c \in {x \in cs : x.op = "get_columns" /\ x.kind = "table" /\ x.result = "raise"}}

\* an exception left the processing of the entity
RaisedFor(kind, dataset_name) ==
    \E c \in CallsFor(kind, dataset_name) :
        \/ c.result = "raise" /\ ~(kind = "table" /\ c.op = "get_columns")
        \/ c.result = "notimplemented" /\ c.op = "get_table_properties"

\* the DatasetRecord of the entity is in the stream
Emitted(kind, dataset_name) ==
    \E i \in DOMAIN stream :
        /\ stream[i].id = dataset_name
        /\ "datasetProperties" \in stream[i].aspects
        /\ ("is_view" \in stream[i].payload) <=> (kind = "view")

\* ------------------------------------------------------------------ claims

\* C1: a table whose normalized identifier loop_tables has already taken up
\* in the same schema is skipped: nothing is counted, dropped, looked up,
\* registered or emitted for it; a first occurrence is counted once.
C1_TableDedup ==
    [][(pc = "table_loop" /\ ti <= Len(tables[si]))
        => IF \E m \in 1..(ti - 1) : TableNameAt(si, m) = TableNameAt(si, ti)
           THEN /\ report' = report
                /\ stream' = stream
                /\ cur_state' = cur_state
                /\ calls' = calls
           ELSE report'.tables_scanned = report.tables_scanned + 1]_vars

\* a table list with the same table twice has been gone through: counted once
C1_Witness ==
    /\ pc = "table_loop"
    /\ Len(tables[si]) = 2
    /\ ti = 3
    /\ tables[si][1] = tables[si][2]
    /\ report.tables_scanned = 1
    /\ Emitted("table", TableNameAt(si, 1))

\* C2: when the run is done, the retractions are exactly one per id of the
\* previous state that this run did not register, and none when there is
\* no previous state.
C2_StaleRemoval ==
    pc = "done" =>
        /\ Retracted(stream) = last_state \ Registered
        /\ Cardinality(Retractions(stream)) = Cardinality(last_state \ Registered)
        /\ last_state = {} => Retractions(stream) = {}

\* previous state of three tables, two of them registered again, one retracted
C2_Witness ==
    /\ pc = "done"
    /\ Cardinality(last_state) = 3
    /\ Cardinality(last_state \cap Registered) = 2
    /\ Cardinality(Retractions(stream)) = 1

\* C3: nothing follows a retraction in the stream but retractions, and the
\* retractions are there only once every schema and the profiling pass is over.
C3_RetractionsLast ==
    /\ \A i, j \in DOMAIN stream :
          i < j /\ stream[i].op = "retract" => stream[j].op = "retract"
    /\ Retractions(stream) # {} => pc = "done"

\* a run with profiles and retractions
C3_Witness ==
    /\ pc = "done"
    /\ Retractions(stream) # {}
    /\ \E i \in DOMAIN stream : "datasetProfile" \in stream[i].aspects

\* the table is in the source, in a schema and under an identifier the
\* patterns admit
StillPresentAdmittedTable(urn) ==
    \E j \in DOMAIN SchemaNames : \E k \in DOMAIN tables[j] :
        /\ Allowed(config.schema_pattern, SchemaNames[j])
        /\ Allowed(config.table_pattern, TableNameAt(j, k))
        /\ DatasetUrn(config, TableNameAt(j, k)) = urn

\* C4: with tables included, no table that is still in the source and
\* admitted by schema_pattern and table_pattern is retracted.
C4_NoIncorrectStaleRemoval ==
    config.include_tables =>
        \A urn \in Retracted(stream) : ~StillPresentAdmittedTable(urn)

\* C5: a table whose processing raised has a warning under its name, and
\* every admitted table of every list loop_tables has been through was
\* looked up, whatever happened to the tables before it.
C5_PerTableIsolation ==
    /\ \A c \in calls :
          c.kind = "table" /\ c.result = "raise" =>
              \E i \in DOMAIN report.warnings : report.warnings[i][1] = c.name
    /\ \A jk \in TableEntriesReached :
          Allowed(config.table_pattern, TableNameAt(jk[1], jk[2])) =>
              \E c \in CallsFor("table", TableNameAt(jk[1], jk[2])) : c.op = "get_columns"

\* the first table of a schema raised, the second one is in the stream
C5_Witness ==
    \E j \in DOMAIN SchemaNames :
        /\ Len(tables[j]) = 2
        /\ <<j, 2>> \in TableEntriesReached
        /\ RaisedFor("table", TableNameAt(j, 1))
        /\ HasWarning(report, TableNameAt(j, 1), <<"Ingestion error">>)
        /\ Emitted("table", TableNameAt(j, 2))

\* C6: a run in which the enumeration of a schema's tables failed is not
\* aborted.
C6_SchemaFailureIsolation ==
    \A j \in DOMAIN SchemaNames :
        HasFailure(SchemaNames[j], <<"Tables error">>) => pc # "aborted"

\* C7: a table whose column fetch raised has a warning under its identifier,
\* its processing went on, it is registered in that run and not retracted by
\* it, nor by the next run if that run registers it again.
C7_ColumnFailureRegistered ==
    /\ \A d \in ColumnFetchRaised(calls) :
          /\ HasWarning(report, d, <<"unable to get column information due to an error">>)
          /\ \E c \in CallsFor("table", d) : c.op = "get_table_properties"
          /\ DatasetUrn(config, d) \in cur_state
          /\ DatasetUrn(config, d) \notin Retracted(stream)
    /\ \A h \in DOMAIN history : \A d \in ColumnFetchRaised(history[h].calls) :
          /\ HasWarning(history[h].report, d,
                        <<"unable to get column information due to an error">>)
          /\ DatasetUrn(config, d) \in history[h].cur_state
          /\ DatasetUrn(config, d) \notin Retracted(history[h].stream)
          /\ h = Len(history) =>
                /\ DatasetUrn(config, d) \in last_state
                /\ DatasetUrn(config, d) \in cur_state =>
                      DatasetUrn(config, d) \notin Retracted(stream)

\* the second run is done and has registered again a table whose column
\* fetch raised in the first run
C7_Witness ==
    /\ pc = "done"
    /\ Len(history) = 1
    /\ \E d \in ColumnFetchRaised(history[1].calls) : DatasetUrn(config, d) \in cur_state

\* C8: no work unit with a schema aspect is emitted for a table whose
\* column fetch raised.
C8_NoSchemaAspectAfterColumnFailure ==
    \A d \in ColumnFetchRaised(calls) :
        ~\E i \in DOMAIN stream :
            /\ stream[i].urn = DatasetUrn(config, d)
            /\ "schemaMetadata" \in stream[i].aspects
            /\ "is_view" \notin stream[i].payload

\* C9, as claimed: with schema_pattern denying tmp_*, the table tmp_scratch
\* of the allowed schema sales has no column fetch and is not registered.
C9_Original ==
    config.schema_pattern = DenyTmpPrefix =>
        /\ CallsFor("table", get_identifier(SchemaSales, TableTmpScratch)) = {}
        /\ DatasetUrn(config, get_identifier(SchemaSales, TableTmpScratch)) \notin cur_state

\* C9, amended: with schema_pattern denying tmp_*, the table tmp_scratch of
\* an allowed schema is counted as scanned; it is dropped without any lookup
\* or registration exactly when table_pattern denies its identifier,
\* otherwise its columns are fetched and it is registered.
C9_Amended ==
    [][(/\ config.schema_pattern = DenyTmpPrefix
        /\ pc = "table_loop"
        /\ ti <= Len(tables[si])
        /\ tables[si][ti] = TableTmpScratch
        /\ \A m \in 1..(ti - 1) : tables[si][m] # TableTmpScratch)
        => /\ report'.tables_scanned = report.tables_scanned + 1
           /\ IF Allowed(config.table_pattern, TableNameAt(si, ti))
              THEN /\ \E c \in calls' \ calls :
                         c.op = "get_columns" /\ c.name = TableNameAt(si, ti)
                   /\ DatasetUrn(config, TableNameAt(si, ti)) \in cur_state'
                   /\ report'.filtered = report.filtered
              ELSE /\ calls' = calls
                   /\ cur_state' = cur_state
                   /\ stream' = stream
                   /\ report'.filtered = Append(report.filtered, TableNameAt(si, ti))]_vars

\* schema_pattern denies tmp_*, and sales.tmp_scratch is scanned and registered
C9_Witness ==
    /\ config.schema_pattern = DenyTmpPrefix
    /\ report.tables_scanned >= 1
    /\ DatasetUrn(config, get_identifier(SchemaSales, TableTmpScratch)) \in RegisteredAs("table")
    /\ CallsFor("table", get_identifier(SchemaSales, TableTmpScratch)) # {}

\* no lookup and no registration was made for the entity
Untouched(kind, dataset_name) ==
    /\ CallsFor(kind, dataset_name) = {}
    /\ DatasetUrn(config, dataset_name) \notin RegisteredAs(kind)

DroppedEntriesFor(d) ==
    Cardinality({i \in DOMAIN report.filtered :
                    report.filtered[i] \in {d, <<"profile of ">> \o d}})

\* C11: every entity denied by its pattern (a schema get_allowed_schemas has
\* passed, a table loop_tables has been through, a view loop_views has been
\* through) has exactly one entry in the dropped list.
C11_DroppedExactlyOnce ==
    /\ \A j \in DOMAIN SchemaNames :
          j < si /\ ~Allowed(config.schema_pattern, SchemaNames[j])
              => DroppedEntriesFor(SchemaNames[j] \o <<".*">>) = 1
    /\ \A jk \in TableEntriesReached :
          ~Allowed(config.table_pattern, TableNameAt(jk[1], jk[2]))
              => DroppedEntriesFor(TableNameAt(jk[1], jk[2])) = 1
    /\ \A jk \in ViewEntriesReached :
          ~Allowed(config.view_pattern, ViewNameAt(jk[1], jk[2]))
              => DroppedEntriesFor(ViewNameAt(jk[1], jk[2])) = 1

\* the identifier names an entity of the schema
InSchema(dataset_name, sch) ==
    /\ Len(dataset_name) > Len(sch)
    /\ SubSeq(dataset_name, 1, Len(sch) + 1) = sch \o <<".">>

\* the urns of the schema's container and of the entities it can hold
UrnsOfSchema(sch) ==
    {SchemaContainerUrn(config, DB_NAME, sch)}
    \cup {DatasetUrn(config, get_identifier(sch, n)) : n \in TableNames \cup ViewNames}

\* C12: for a schema schema_pattern denies, get_workunits never stands in
\* its table, view or profiling loop; once get_allowed_schemas has passed it
\* the dropped list has exactly one entry for it (none before); no work unit
\* targets its container or its entities, no lookup is made and no profiling
\* request is built for an entity of it, and nothing of it is registered.
C12_DeniedSchemaSkipped ==
    \A j \in DOMAIN SchemaNames :
        ~Allowed(config.schema_pattern, SchemaNames[j]) =>
            /\ si = j => pc = "schemas"
            /\ DroppedEntriesFor(SchemaNames[j] \o <<".*">>) = IF j < si THEN 1 ELSE 0
            /\ \A i \in DOMAIN stream : stream[i].urn \notin UrnsOfSchema(SchemaNames[j])
            /\ \A c \in calls : ~InSchema(c.name, SchemaNames[j])
            /\ \A i \in DOMAIN profile_requests :
                  ~InSchema(profile_requests[i], SchemaNames[j])
            /\ cur_state \cap UrnsOfSchema(SchemaNames[j]) = {}

\* a run with profiling is done; the denied schema tmp_stage holds a table
C12_Witness ==
    /\ pc = "done"
    /\ config.profiling_enabled
    /\ ~Allowed(config.schema_pattern, SchemaTmp)
    /\ tables[2] # <<>>
    /\ tables[1] # <<>>
    /\ report.filtered # <<>>

\* C13: every admitted table loop_tables has been through is registered as a
\* table, whether or not a later step of its processing raised, and the
\* registration precedes every work unit of the stream that targets it.
C13_TableRegisteredFirst ==
    \A jk \in TableEntriesReached :
        LET d == TableNameAt(jk[1], jk[2])
        IN  Allowed(config.table_pattern, d) =>
                \E k \in DOMAIN adds :
                    /\ adds[k].kind = "table"
                    /\ adds[k].urn = DatasetUrn(config, d)
                    /\ \A i \in DOMAIN stream :
                          stream[i].urn = DatasetUrn(config, d) => i > adds[k].at

\* one table whose property lookup raised is registered, and another table
\* of the same schema has its work units in the stream
C13_Witness ==
    \E jk \in TableEntriesReached : \E jm \in TableEntriesReached :
        /\ jk[1] = jm[1]
        /\ \E c \in CallsFor("table", TableNameAt(jk[1], jk[2])) :
              c.op = "get_table_properties" /\ c.result = "raise"
        /\ DatasetUrn(config, TableNameAt(jk[1], jk[2])) \in RegisteredAs("table")
        /\ Emitted("table", TableNameAt(jm[1], jm[2]))

\* C14: every view view_pattern admits that loop_views has been through is
\* registered as a view in this run, whatever lookup of its processing failed.
C14_ViewRegisteredUnconditionally ==
    \A jk \in ViewEntriesReached :
        Allowed(config.view_pattern, ViewNameAt(jk[1], jk[2])) =>
            DatasetUrn(config, ViewNameAt(jk[1], jk[2])) \in RegisteredAs("view")

\* C15: the state a run starts from is exactly the set of ids the run before
\* it registered, and an id the run before retracted is not retracted again
\* by this run.
C15_StateFullyReplaced ==
    /\ \A h \in DOMAIN history :
          IF h = Len(history)
          THEN last_state = history[h].cur_state
          ELSE history[h + 1].last_state = history[h].cur_state
    /\ history # <<>> =>
          Retracted(history[Len(history)].stream) \cap Retracted(stream) = {}

\* the first run retracted an id of its previous state, and the second run,
\* which started from the ids the first registered, is done
C15_Witness ==
    /\ pc = "done"
    /\ Len(history) = 1
    /\ Retracted(history[1].stream) # {}
    /\ history[1].last_state \cap history[1].cur_state # {}
    /\ last_state # {}

\* C16: two work units of the stream with the same id target the same
\* entity and carry a common aspect.
C16_WorkUnitIdsUnique ==
    \A i \in DOMAIN stream : \A j \in DOMAIN stream :
        stream[i].id = stream[j].id =>
            /\ stream[i].urn = stream[j].urn
            /\ stream[i].aspects \cap stream[j].aspects # {}

\* the work units of a stream, as a set
WorkUnitsOf(str) == {str[i] : i \in DOMAIN str}
Upserts(str) == {w \in WorkUnitsOf(str) : w.op = "upsert"}

\* the adapter and the profiler answered this run as they answered the run
\* before it
SameAnswers ==
    /\ history # <<>>
    /\ history[Len(history)].calls = calls
    /\ history[Len(history)].report.failures = report.failures

\* C17, as claimed: a run that is done, the source having answered as in the
\* run before, has emitted the same set of work units as the run before.
C17_Original ==
    pc = "done" /\ SameAnswers =>
        WorkUnitsOf(stream) = WorkUnitsOf(history[Len(history)].stream)

\* C17, amended: a run that is done, the source having answered as in the
\* run before, has emitted the same upsert work units (ids, targets, aspects
\* and payloads) as the run before, and no retraction.
C17_Amended ==
    pc = "done" /\ SameAnswers =>
        /\ Upserts(stream) = Upserts(history[Len(history)].stream)
        /\ Retracted(stream) = {}

\* the second run is done after the same answers; the first run had emitted
\* a table, a profile and a retraction
C17_Witness ==
    /\ pc = "done"
    /\ SameAnswers
    /\ Retracted(history[Len(history)].stream) # {}
    /\ \E w \in Upserts(stream) : "datasetProfile" \in w.aspects
    /\ \E w \in Upserts(stream) : "schemaMetadata" \in w.aspects

\* the identifiers an enumerated table or view can have
DatasetNames ==
    {get_identifier(SchemaNames[j], n) : j \in DOMAIN SchemaNames, n \in TableNames \cup ViewNames}

\* the domain of the last entry of the map, in declaration order, whose
\* pattern admits the identifier; None when no entry admits it
LastMatching(domains, dataset_name) ==
    LET M == {i \in DOMAIN domains : Allowed(domains[i].pattern, dataset_name)}
    IN  IF M = {} THEN None
        ELSE domains[CHOOSE i \in M : \A k \in M : k <= i].domain

\* C18: every domain work unit of the stream assigns to its entity the
\* domain of the last entry of config.domain that admits the entity's
\* identifier; an emitted entity has that work unit when some entry admits
\* it, and no domain work unit when none does.
C18_DomainLastMatchWins ==
    \A d \in DatasetNames :
        LET urn == DatasetUrn(config, d)
            dom == LastMatching(config.domain, d)
        IN  /\ \A i \in DOMAIN stream :
                  stream[i].urn = urn /\ "domains" \in stream[i].aspects =>
                      dom # None /\ stream[i] = DomainWU(dom, urn)
            /\ (Emitted("table", d) \/ Emitted("view", d)) /\ dom # None =>
                  \E i \in DOMAIN stream : stream[i] = DomainWU(dom, urn)

\* P1 then P2 both admit sales.orders, P3 after them does not: the table is
\* emitted with P2's domain
C18_Witness ==
    /\ config.domain = <<P1, P2, P3>>
    /\ Emitted("table", get_identifier(SchemaSales, TableOrders))
    /\ \E i \in DOMAIN stream :
          stream[i] = DomainWU(DomainOrders,
                               DatasetUrn(config, get_identifier(SchemaSales, TableOrders)))

\* the registry after the first n register_custom_type calls
RECURSIVE Replay(_, _)
Replay(reg, regs) ==
    IF regs = <<>> THEN reg
    ELSE Replay(register_custom_type(reg, Head(regs)[1], Head(regs)[2]), Tail(regs))
RegistryAfter(n) ==
    Replay([mapping |-> BuiltinFieldTypeMapping, unknown |-> BuiltinKnownUnknown],
           SubSeq(registered, 1, n))

\* the rules given for native types so far: the built-in ones, then the
\* first n registrations
RulesAfter(n) == BuiltinFieldTypeMapping \o SubSeq(registered, 1, n)

\* the output of the rule the mapping holds for the key
ValueOf(mapping, key) ==
    mapping[CHOOSE i \in DOMAIN mapping : mapping[i][1] = key][2]

\* C19: a column whose class was given a canonical type more than once, and
\* is an instance of no other key, is mapped to the canonical type of the
\* earliest of these rules.
C19_FirstRegistrationWins ==
    \A k \in DOMAIN mapped :
        LET t == mapped[k].column_type
            rules == RulesAfter(mapped[k].after)
            E == {i \in DOMAIN rules : rules[i][1] = t /\ rules[i][2] # NoOutput}
        IN  /\ E # {}
            /\ \A i \in DOMAIN rules : IsInstance(t, rules[i][1]) => rules[i][1] = t
            => mapped[k].type = rules[CHOOSE i \in E : \A m \in E : i <= m][2]

\* C20: a column whose class has a rule of its own (dialect or registered)
\* and derives from a class with a built-in rule is mapped to the canonical
\* type of its own rule.
C20_MostSpecificRuleFirst ==
    \A k \in DOMAIN mapped :
        LET t == mapped[k].column_type
            reg == RegistryAfter(mapped[k].after)
        IN  /\ t \in Keys(reg.mapping)
            /\ \E g \in Keys(BuiltinFieldTypeMapping) : g # t /\ IsInstance(t, g)
            => mapped[k].type = ValueOf(reg.mapping, t)

\* the positions of the stream holding the DatasetRecord of the view
ViewRecords(str, dataset_name) ==
    {i \in DOMAIN str : /\ str[i].id = dataset_name
                        /\ "datasetProperties" \in str[i].aspects
                        /\ "is_view" \in str[i].payload}

\* C22: every enumerated view, whether or not loop_views has taken up its
\* identifier before, is counted as scanned; if view_pattern admits it, it is
\* processed again: its DatasetRecord is appended to the stream once more, or
\* the exception of its processing is reported; if not, it is dropped again.
C22_ViewsNotDeduplicated ==
    [][(pc = "view_loop" /\ ti <= Len(views[si]))
        => /\ report'.views_scanned = report.views_scanned + 1
           /\ IF Allowed(config.view_pattern, ViewNameAt(si, ti))
              THEN \/ Cardinality(ViewRecords(stream', ViewNameAt(si, ti)))
                         = Cardinality(ViewRecords(stream, ViewNameAt(si, ti))) + 1
                   \/ /\ Len(report'.warnings) > Len(report.warnings)
                      /\ report'.warnings[Len(report'.warnings)]
                            = <<SchemaNames[si] \o <<".">> \o views[si][ti], <<"Ingestion error">>>>
              ELSE report'.filtered = Append(report.filtered, ViewNameAt(si, ti))]_vars

\* the same view twice in one schema: scanned twice, two DatasetRecords
C22_Witness ==
    /\ pc = "view_loop"
    /\ Len(views[si]) = 2
    /\ views[si][1] = views[si][2]
    /\ ti = 3
    /\ report.views_scanned = 2
    /\ Cardinality(ViewRecords(stream, ViewNameAt(si, 1))) = 2

\* C25: when get_db_name fails at the start of get_workunits the run is
\* aborted with nothing in the stream, nothing registered and no profiling
\* request, and an aborted run takes no further step (no retraction).
C25_DbNameFailureFatal ==
    [][/\ pc # "aborted"
       /\ (pc = "start" /\ faults' > faults)
             => /\ pc' = "aborted"
                /\ stream' = <<>>
                /\ cur_state' = {}
                /\ profile_requests' = <<>>]_vars

\* the run was aborted at the database name, with a previous state to retract
C25_Witness ==
    /\ pc = "aborted"
    /\ si = 0
    /\ last_state # {}
    /\ stream = <<>>

\* the positions of the stream holding a profile of the dataset
ProfileUnits(str, dataset_name) ==
    {i \in DOMAIN str : "datasetProfile" \in str[i].aspects
                        /\ str[i].urn = DatasetUrn(config, dataset_name)}

\* the profiler has answered the request, with the result
Answered(dataset_name, result) ==
    Call("generate_profiles", "profile", dataset_name, result) \in calls

\* C28: whatever the order of the profiler's answers, the stream holds exactly
\* one profile work unit, with id profile-<name>, for every request answered
\* with a profile, none for a request answered with None or not answered yet,
\* and once the profiler is exhausted every request has been answered.
C28_ProfilePerAnsweredRequest ==
    /\ \A d \in DatasetNames :
          /\ Cardinality(ProfileUnits(stream, d)) = IF Answered(d, "ok") THEN 1 ELSE 0
          /\ \A i \in ProfileUnits(stream, d) : stream[i].id = <<"profile-">> \o d
          /\ Answered(d, "ok") \/ Answered(d, "none") =>
                \E k \in DOMAIN profile_requests : profile_requests[k] = d
    /\ pc \in {"finalize", "done"} =>
          \A k \in DOMAIN profile_requests :
              Answered(profile_requests[k], "ok") \/ Answered(profile_requests[k], "none")

\* two requests, answered in the reverse order, both with a profile
C28_Witness ==
    /\ pc = "done"
    /\ Len(profile_requests) = 2
    /\ \E i \in ProfileUnits(stream, profile_requests[2]) :
          \E k \in ProfileUnits(stream, profile_requests[1]) : i < k

\* the column lookup of the view failed
ViewColumnsFailed(dataset_name) ==
    \E c \in CallsFor("view", dataset_name) :
        c.op = "get_columns" /\ c.result \in {"keyerror", "raise"}

\* C23: every view view_pattern admits that loop_views has been through and
\* whose column lookup failed has its DatasetRecord in the stream, without
\* schema metadata, and a warning under its identifier.
C23_ViewWithoutColumnsEmitted ==
    \A jk \in ViewEntriesReached :
        LET d == ViewNameAt(jk[1], jk[2])
        IN  Allowed(config.view_pattern, d) /\ ViewColumnsFailed(d) =>
                /\ \E i \in ViewRecords(stream, d) : "schemaMetadata" \notin stream[i].aspects
                /\ \E i \in DOMAIN report.warnings : report.warnings[i][1] = d

\* C30: a run acquires one connection handle, never holds more than one, and
\* holds none once it is done or aborted.
C30_OneConnectionPerRun ==
    /\ connections.acquired <= 1
    /\ Cardinality(connections.open) <= 1
    /\ pc \in {"done", "aborted"} => connections.open = {}

\* the candidate list loop_profiler_requests has for a schema exists: the
\* limits of the recipe ask for it and the source class computes one
CandidateListComputed ==
    /\ \/ config.profile_if_updated_since_days # None
       \/ config.profile_table_size_limit # None
       \/ config.profile_table_row_limit = None
    /\ hooks.candidates.supported

\* the profiling request of the dataset has been built
Requested(dataset_name) ==
    \E k \in DOMAIN profile_requests : profile_requests[k] = dataset_name

\* C26: every profiling request is for an identifier that table_pattern
\* admits, that profile_pattern admits and that, when a candidate list was
\* computed, is in that list.
C26_ProfilingEligibility ==
    \A k \in DOMAIN profile_requests :
        /\ Allowed(config.table_pattern, profile_requests[k])
        /\ Allowed(config.profile_pattern, profile_requests[k])
        /\ CandidateListComputed => profile_requests[k] \in hooks.candidates.names

\* a candidate list was computed; sales.orders, which is in it, has a request
\* and sales.tmp_scratch, which the patterns admit but the list lacks, has not
C26_Witness ==
    /\ CandidateListComputed
    /\ si > 1
    /\ Len(tables[1]) = 2
    /\ Requested(get_identifier(SchemaSales, TableOrders))
    /\ Allowed(config.table_pattern, get_identifier(SchemaSales, TableTmpScratch))
    /\ Allowed(config.profile_pattern, get_identifier(SchemaSales, TableTmpScratch))
    /\ ~Requested(get_identifier(SchemaSales, TableTmpScratch))
    /\ ~HasWarning(report, PROFILE_SKIPPED, get_identifier(SchemaSales, TableTmpScratch))

\* loop_profiler_requests is through with the tables of schema j
ProfilerRequestsOver(j) ==
    /\ config.profiling_enabled
    /\ Allowed(config.schema_pattern, SchemaNames[j])
    /\ j < si

\* the table was not skipped for a reason other than eligibility: its columns
\* are not reported missing and it is not a partitioned table without partition
Profilable(dataset_name) ==
    /\ dataset_name \notin WarningsOf(report, MISSING_COLUMN_INFO)
    /\ dataset_name \notin hooks.partitioned

\* C27: when no candidate list was computed (the hook raises
\* NotImplementedError, or the limits do not ask for it), every table of a
\* schema loop_profiler_requests is through with that table_pattern and
\* profile_pattern admit has a profiling request.
C27_NoCandidateListMeansAll ==
    ~CandidateListComputed =>
        \A j \in DOMAIN SchemaNames : \A k \in DOMAIN tables[j] :
            (/\ ProfilerRequestsOver(j)
             /\ Allowed(config.table_pattern, TableNameAt(j, k))
             /\ Allowed(config.profile_pattern, TableNameAt(j, k))
             /\ Profilable(TableNameAt(j, k)))
            => Requested(TableNameAt(j, k))

\* the source class computes candidate lists, the limits do not ask for
\* one, and sales.tmp_scratch, which the list would lack, has a request
C27_Witness ==
    /\ hooks.candidates.supported
    /\ ~CandidateListComputed
    /\ Requested(get_identifier(SchemaSales, TableTmpScratch))
    /\ get_identifier(SchemaSales, TableTmpScratch) \notin hooks.candidates.names

\* the tables loop_profiler_requests has been through that were eligible and
\* partitioned, and for which the partition query gave no partition
PartitionedWithoutPartition ==
    {d \in UNION {{TableNameAt(j, k) : k \in DOMAIN tables[j]} :
                     j \in {i \in DOMAIN SchemaNames : ProfilerRequestsOver(i)}} :
        /\ Allowed(config.table_pattern, d)
        /\ Allowed(config.profile_pattern, d)
        /\ CandidateListComputed => d \in hooks.candidates.names
        /\ d \notin WarningsOf(report, MISSING_COLUMN_INFO)
        /\ d \in hooks.partitioned}

\* C29, as claimed: an eligible partitioned table without partition has no
\* profiling request, is not counted in entities_profiled, and has an entry
\* in the dropped list of the report.
C29_Original ==
    /\ report.entities_profiled = Len(profile_requests)
    /\ \A d \in PartitionedWithoutPartition :
          /\ ~Requested(d)
          /\ Dropped(d) \/ Dropped(<<"profile of ">> \o d)

\* C29, amended: an eligible partitioned table without partition has no
\* profiling request, is not counted in entities_profiled, and is reported by
\* a warning under the key "profile skipped as partitioned table is empty or
\* partition id was invalid" that names it; the dropped list has no entry for it.
C29_Amended ==
    /\ report.entities_profiled = Len(profile_requests)
    /\ \A d \in PartitionedWithoutPartition :
          /\ ~Requested(d)
          /\ HasWarning(report, PROFILE_SKIPPED, d)
          /\ ~Dropped(d) /\ ~Dropped(<<"profile of ">> \o d)

\* sales.tmp_scratch is partitioned without partition and was skipped, while
\* sales.orders of the same schema has its request and is counted
C29_Witness ==
    /\ get_identifier(SchemaSales, TableTmpScratch) \in PartitionedWithoutPartition
    /\ Requested(get_identifier(SchemaSales, TableOrders))
    /\ report.entities_profiled = 1

\* the columns of the dataset whose type is of the class
ColumnsOfType(dataset_name, column_type) ==
    {i \in DOMAIN SourceColumns(dataset_name) :
        SourceColumns(dataset_name)[i].type = column_type}

\* the warnings of the report under the key with the reason
WarningCount(key, reason) ==
    Cardinality({i \in DOMAIN report.warnings : report.warnings[i] = <<key, reason>>})

\* a DatasetRecord of the dataset with the fields of its columns is in the stream
FieldsEmitted(dataset_name) ==
    \E i \in DOMAIN stream : stream[i].id = dataset_name /\ "fields" \in stream[i].payload

\* C21: for every dataset and every class of column type that matches no
\* rule and no known-unknown type, the report holds, under the dataset's
\* identifier, one "unable to map type" warning per column of that type once
\* the dataset is emitted with its fields, and never more than that.
C21_OneWarningPerUnmappedColumn ==
    \A d \in DatasetNames :
        \A t \in {SourceColumns(d)[i].type : i \in DOMAIN SourceColumns(d)} :
            get_column_type(registry, t).warned =>
                /\ WarningCount(d, UnableToMap(t)) <= Cardinality(ColumnsOfType(d, t))
                /\ FieldsEmitted(d) =>
                      WarningCount(d, UnableToMap(t)) = Cardinality(ColumnsOfType(d, t))

\* C24: when the recipe gives table_pattern and no view_pattern, loop_views
\* admits an enumerated view exactly when table_pattern admits its
\* identifier; when the recipe sets view_pattern, loop_views admits the view
\* exactly when the pattern written there admits it, whatever table_pattern
\* says.
C24_ViewPatternDefault ==
    [][(pc = "view_loop" /\ ti <= Len(views[si]))
        => LET d == ViewNameAt(si, ti)
               admitted == report'.filtered = report.filtered
           IN  /\ recipe.table_pattern # Unset /\ recipe.view_pattern = Unset
                    => (admitted <=> Allowed(FieldDefault(recipe.table_pattern), d))
               /\ recipe.view_pattern # Unset
                    => (admitted <=> Allowed(FieldDefault(recipe.view_pattern), d))]_vars

\* C31: when the processing of a table or view ends in an exception, which
\* loop_tables and loop_views report as "Ingestion error", the step has added
\* no work unit to the stream.
C31_FailedEntitySkippedWhole ==
    [][(/\ pc \in {"table_loop", "view_loop"}
        /\ Len(report'.warnings) > Len(report.warnings)
        /\ report'.warnings[Len(report'.warnings)][2] = <<"Ingestion error">>)
        => stream' = stream]_vars

\* the positions of the work units of the entities of a schema, profiles apart
EntityUnits(str, sch) ==
    {i \in DOMAIN str :
        /\ str[i].op = "upsert"
        /\ "datasetProfile" \notin str[i].aspects
        /\ \E n \in TableNames \cup ViewNames :
              str[i].urn = DatasetUrn(config, get_identifier(sch, n))}

\* the positions of the container record of urn
ContainerUnits(str, urn) ==
    {i \in DOMAIN str : str[i].urn = urn /\ "containerProperties" \in str[i].aspects}

\* what a work unit says about a view and about a table; the container
\* membership says neither, it is of the entity whose snapshot follows it
OfView(str, i) ==
    LET k == IF "container" \in str[i].aspects /\ i < Len(str) THEN i + 1 ELSE i
    IN  \/ "is_view" \in str[k].payload
        \/ "view" \in str[k].payload
        \/ "viewProperties" \in str[k].aspects

\* C32: in the stream of a run the database container record stands before
\* every schema container record; the container record of a schema stands
\* before every work unit of a table or view of that schema; among the
\* entity work units of a schema no view's unit stands before a table's;
\* and every profile stands after every table and view work unit.
C32_DepthFirstOrder ==
    /\ \A j \in DOMAIN SchemaNames :
          LET sch == SchemaNames[j]
              own == ContainerUnits(stream, SchemaContainerUrn(config, DB_NAME, sch))
          IN  /\ \A i \in own :
                    \E d \in ContainerUnits(stream, DatabaseContainerUrn(config, DB_NAME)) : d < i
              /\ \A i \in own :
                    \A d \in ContainerUnits(stream, DatabaseContainerUrn(config, DB_NAME)) : d < i
              /\ \A e \in EntityUnits(stream, sch) :
                    /\ \E i \in own : i < e
                    /\ \A i \in own : i < e
              /\ \A e, f \in EntityUnits(stream, sch) :
                    OfView(stream, e) /\ ~OfView(stream, f) => f < e
    /\ \A p \in DOMAIN stream :
          "datasetProfile" \in stream[p].aspects =>
              \A j \in DOMAIN SchemaNames : \A e \in EntityUnits(stream, SchemaNames[j]) : e < p

C32_Witness ==
    /\ pc = "finalize"
    /\ \E e, f \in EntityUnits(stream, SchemaSales) :
          OfView(stream, e) /\ ~OfView(stream, f)
    /\ \E p \in DOMAIN stream : "datasetProfile" \in stream[p].aspects
    /\ ContainerUnits(stream, SchemaContainerUrn(config, DB_NAME, SchemaSales)) # {}

\* the lookups of the step
NewCalls == calls' \ calls

\* the step reports the exception of _process_table or _process_view
IngestionErrorReported ==
    /\ Len(report'.warnings) > Len(report.warnings)
    /\ report'.warnings[Len(report'.warnings)][2] = <<"Ingestion error">>

\* the positions of the table snapshots of the identifier
TableRecords(str, dataset_name) ==
    {i \in DOMAIN str : /\ str[i].id = dataset_name
                        /\ "datasetProperties" \in str[i].aspects
                        /\ "is_view" \notin str[i].payload}

\* C33: a step of loop_tables in which the foreign-key lookup of the table
\* failed reports no ingestion error and no failure, and appends the table's
\* snapshot, with its schema metadata and an empty foreign-key list.
C33_ForeignKeyFailureDegrades ==
    [][\A c \in NewCalls :
          c.op = "get_foreign_keys" /\ c.result \in {"keyerror", "raise"}
          => /\ ~IngestionErrorReported
             /\ report'.failures = report.failures
             /\ \E k \in TableRecords(stream', c.name) :
                   /\ k > Len(stream)
                   /\ "schemaMetadata" \in stream'[k].aspects
                   /\ "foreignKeys=[]" \in stream'[k].payload]_vars

\* C34: a step in which the comment-and-properties lookup of a table or view
\* raised NotImplementedError reports no ingestion error and no failure, and
\* appends the snapshot of the entity.
C34_PropertiesNotImplementedSilent ==
    [][\A c \in NewCalls :
          c.op = "get_table_properties" /\ c.result = "notimplemented"
          => /\ ~IngestionErrorReported
             /\ report'.failures = report.failures
             /\ \E k \in DOMAIN stream' :
                   /\ k > Len(stream)
                   /\ stream'[k].id = c.name
                   /\ "datasetProperties" \in stream'[k].aspects]_vars

\* the positions of the view-definition work units of the identifier
ViewPropertiesUnits(str, dataset_name) ==
    {i \in DOMAIN str : /\ str[i].urn = DatasetUrn(config, dataset_name)
                        /\ "viewProperties" \in str[i].aspects}

\* C35: a step of loop_views in which the view-definition lookup raised
\* NotImplementedError or answered None appends the view's DatasetRecord and
\* a view-definition work unit whose definition text is empty.
C35_ViewDefinitionDegrades ==
    [][\A c \in NewCalls :
          c.op = "get_view_definition" /\ c.result \in {"notimplemented", "none"}
          => /\ \E k \in ViewRecords(stream', c.name) : k > Len(stream)
             /\ \E k \in ViewPropertiesUnits(stream', c.name) :
                   k > Len(stream) /\ stream'[k].payload = {"viewLogic=''"}]_vars

C35_Witness ==
    \E c \in calls :
        /\ c.op = "get_view_definition"
        /\ c.result = "notimplemented"
        /\ \E k \in ViewPropertiesUnits(stream, c.name) : stream[k].payload = {"viewLogic=''"}
        /\ ViewRecords(stream, c.name) # {}

\* C36: in the stream of a run no entity is the target of an upsert work
\* unit and of a retraction.
C36_NoUpsertAndRetraction ==
    \A i, j \in DOMAIN stream :
        stream[i].op = "upsert" /\ stream[j].op = "retract" => stream[i].urn # stream[j].urn

\* the distinct (schema, identifier) pairs among the table entries
\* loop_tables has been through
TablePairsReached ==
    {<<jk[1], normalise_dataset_name(TableNameAt(jk[1], jk[2]))>> : jk \in TableEntriesReached}

\* C37: at every point of a run tables_scanned is the number of distinct
\* (schema, identifier) pairs loop_tables has been through; each of them is
\* either denied by table_pattern and in the dropped list, or its processing
\* has started, so the counter is the sum of the two; repeated entries and
\* denied schemas do not count.
C37_ScanCounter ==
    LET denied == {p \in TablePairsReached : ~Allowed(config.table_pattern, p[2])}
        started == {p \in TablePairsReached : CallsFor("table", p[2]) # {}}
    IN  /\ report.tables_scanned = Cardinality(TablePairsReached)
        /\ report.tables_scanned = Cardinality(denied) + Cardinality(started)
        /\ \A p \in denied : Dropped(p[2])
        /\ \A p \in started : Allowed(config.table_pattern, p[2])

C37_Witness ==
    /\ pc = "done"
    /\ Len(tables[1]) = 2
    /\ tables[1][1] = tables[1][2]
    /\ TableLoopOver(1)
    /\ ~Allowed(config.schema_pattern, SchemaNames[2])
    /\ report.tables_scanned = 1

\* C38: a table for which loop_tables recorded the missing-column-information
\* warning has no profiling request, pending or answered, and no profile in
\* the stream; entities_profiled counts the requests built, so it was not
\* incremented for that table.
C38_NoProfileWithoutColumns ==
    /\ report.entities_profiled = Len(profile_requests)
    /\ \A d \in WarningsOf(report, MISSING_COLUMN_INFO) :
          config.include_tables =>
              /\ ~Requested(d)
              /\ d \notin pending
              /\ CallsFor("profile", d) = {}
              /\ ProfileUnits(stream, d) = {}

C38_Witness ==
    /\ pc = "done"
    /\ config.include_tables
    /\ ProfilerRequestsOver(1)
    /\ tables[1] = <<TableOrders, TableTmpScratch>>
    /\ get_identifier(SchemaSales, TableOrders) \in WarningsOf(report, MISSING_COLUMN_INFO)
    /\ Allowed(config.table_pattern, get_identifier(SchemaSales, TableTmpScratch))
    /\ profile_requests = <<get_identifier(SchemaSales, TableTmpScratch)>>
    /\ report.entities_profiled = 1

\* the keys and messages of the warnings and failures and the entries of the
\* dropped list
ReportEntries(r) ==
    {r.warnings[i][1] : i \in DOMAIN r.warnings} \cup {r.warnings[i][2] : i \in DOMAIN r.warnings}
    \cup {r.failures[i][1] : i \in DOMAIN r.failures} \cup {r.failures[i][2] : i \in DOMAIN r.failures}
    \cup {r.filtered[i] : i \in DOMAIN r.filtered}

\* the text holds the password
Holds(text, password) == \E k \in DOMAIN text : <<text[k]>> = password

\* the passwords two recipes can differ in
Passwords == {<<"hunter2">>, <<"swordfish">>}

\* C39: no entry of the report holds the configured password, and the
\* entries are the same whichever password the recipe has: the warning the
\* connection client records is the one it records for any other password.
C39_PasswordNonInterference ==
    /\ \A text \in ReportEntries(report) : ~Holds(text, config.password)
    /\ \A pw \in Passwords :
          get_sql_alchemy_url([config EXCEPT !.password = pw]) \in ReportEntries(report)

====
